---- MODULE Spec2Model ----
(***************************************************************************)
(* A model of pngtopi1.c: the RLE codec of the Degas PC? formats, the      *)
(* bit-plane packing of mypix_from_png / get_st_pixel, the palette         *)
(* construction of mypix_from_png and the Degas file header written by     *)
(* save_as_pix / save_as_pcx.                                              *)
(*                                                                         *)
(* Buffers indexed from 0 in the source (raw[], pix->bits[]) are functions *)
(* over the offsets written so far; byte streams that are only appended to *)
(* or read in order (the rle[] scratch buffer, a file) are sequences.      *)
(***************************************************************************)
EXTENDS Integers, Sequences, FiniteSets, TLC

VARIABLES
  pc,      \* which operation of the program runs next
  eL,      \* enc_copy / enc_fill: the parameter l
  eV,      \* enc_fill: the parameter v
  eS,      \* enc_copy: the l bytes at s
  eOut,    \* enc_copy / enc_fill: the bytes written at d
  eRest,   \* enc_fill: the value of l at assert(l == 0)
  src,     \* pcx_encode_row: the bytes at src (len = Len(src)); for a
           \* picture that save_as_pcx writes, its pixel data: two lines
  file,    \* the bytes a reader consumes: rle[0..j-1], or an input file
  fpos,    \* number of bytes of file consumed so far
  bpp,     \* rle_read: bytes_per_plan, the row-plane byte budget
  raw,     \* rle_read: raw[], as a function over the offsets written
  x,       \* rle_read: x, the write position in raw[]
  ret,     \* what the reader returned: "none" (running), "ok" (0), "err" (-1)
  msg,     \* the error reported with emsg, "none" when there is none
  id,      \* index in degas[] of the format of the image
  y,       \* the line being processed
  z,       \* the bit-plane being processed
  bits,    \* pix->bits[], as a function over the header offsets 0..33 and
           \* the offsets of line y written so far
  img,     \* the mypix_t: "none", "alloc" (allocated), "null" (freed)
  opt_col, \* the colour mode handed to set_color_mode
  png,     \* the source PNG: w, h, the RGB8 colours it uses and the pattern
           \* (sx, sy) that places them
  lut,     \* mypix_from_png: lut[16], a sequence (lut[k] is lut[k + 1])
  ncolors, \* mypix_from_png: ncolors
  rev,     \* mypix_from_png: the reverse table colcnt[rgb].rgb, over the
           \* RGB444 values of lut[0..ncolors-1]
  cur,     \* mypix_from_png: the write cursor bits, as an offset in pix->bits
  unp,     \* the palette indices get_st_pixel returns for line y - 1
  rd,      \* the offsets of pix->bits that get_st_pixel read for them
  ipath,   \* create_output_path: ipath
  opt_dir, \* opt_dir: 1 when --same-dir is given
  asize,   \* the number of bytes mf_strdup allocated for the output path
  wend,    \* the number of bytes of that buffer up to the last one written
  args,    \* main: the options of the command line not yet parsed
  opt_out, \* opt_out
  opath,   \* main: opath, a sequence of characters; <<>> when there is none
  itype,   \* main: itype, the type of the input image
  ofile,   \* the file written, as a file record
  otype,   \* the type of the file written, PXX when none is
  ecode,   \* main: ecode
  warn,    \* the warning printed by wmsg, "none" before
  ste_detect,  \* save_png_as: ste_detect
  argv,    \* main: the options of the command line, as main is handed them
  comp,    \* a colour component of 8 bits, as rgb444 is handed
  c4,      \* rgb_8to4[comp]
  c8,      \* col_4to8[c4 & 15]
  back     \* rgb444(c8, c8, c8): the palette word of the PNG colour

encVars == <<eL, eV, eS, eOut, eRest>>
rowVars == <<src>>
decVars == <<file, fpos, bpp, raw, x, ret, msg>>
imgVars == <<id, y, z, bits, img>>
pngVars == <<opt_col, png, lut, ncolors, rev, cur, unp>>
mainVars == <<args, opt_out, opath, itype, ofile, otype, ecode, warn,
              ste_detect, argv>>
colVars == <<comp, c4, c8, back>>
pathVars == <<ipath, opt_dir, asize, wend>>
vars == <<pc, encVars, rowVars, decVars, imgVars, pngVars, mainVars, colVars,
          rd, pathVars>>

(***************************************************************************)
(* Bounds of the model.                                                    *)
(***************************************************************************)
MaxRun == 300   \* longest l handed to enc_copy / enc_fill
MaxPat == 3     \* longest period of the periodic rows handed to the encoder
MaxOps == 2     \* number of arbitrary opcodes that start a compressed file
MaxColours == 18 \* largest number of RGB8 colours of a source PNG
MaxStart == 2   \* number of colour sets of each size, less one
MaxName == 4     \* longest file name of an input path
MaxArgs == 2    \* number of options of a command line

RowMax == 80    \* uint8_t raw[80]
RleMax == 128   \* uint8_t rle[128]

Vals == {0, 127, 255}       \* byte values used to build inputs

(***************************************************************************)
(* The Degas formats.                                                      *)
(***************************************************************************)
DEGAS_PI1 == 0
DEGAS_PI2 == 1
DEGAS_PI3 == 2
DEGAS_PC1 == DEGAS_PI1 + 32768
DEGAS_PC2 == DEGAS_PI2 + 32768
DEGAS_PC3 == DEGAS_PI3 + 32768

\* degas[6]: name, id, minsz, w, h, d, c, rle
degas ==
  [i \in 0 .. 5 |->
     CASE i = 0 -> [name |-> "PI1", id |-> DEGAS_PI1, minsz |-> 32034,
                    w |-> 320, h |-> 200, d |-> 2, c |-> 16, rle |-> 0]
       [] i = 1 -> [name |-> "PC1", id |-> DEGAS_PC1, minsz |-> 1634,
                    w |-> 320, h |-> 200, d |-> 2, c |-> 16, rle |-> 1]
       [] i = 2 -> [name |-> "PI2", id |-> DEGAS_PI2, minsz |-> 32034,
                    w |-> 640, h |-> 200, d |-> 1, c |-> 4, rle |-> 0]
       [] i = 3 -> [name |-> "PC2", id |-> DEGAS_PC2, minsz |-> 839,
                    w |-> 640, h |-> 200, d |-> 1, c |-> 4, rle |-> 1]
       [] i = 4 -> [name |-> "PI3", id |-> DEGAS_PI3, minsz |-> 32034,
                    w |-> 640, h |-> 400, d |-> 0, c |-> 0, rle |-> 0]
       [] i = 5 -> [name |-> "PC3", id |-> DEGAS_PC3, minsz |-> 854,
                    w |-> 640, h |-> 400, d |-> 0, c |-> 0, rle |-> 1]]

\* 1 << n  and  v >> n, v << n on non-negative values
Pow2(n) == 2 ^ n
Shl(v, n) == v * Pow2(n)
Shr(v, n) == v \div Pow2(n)

\* a value stored in a uint8_t
U8(n) == n % 256

\* error codes
E_OK == 0
E_ERR == 1
E_ARG == 2
E_INT == 3
E_INP == 4
E_OUT == 5
E_PNG == 6

\* image types, the values of opt_out
PXX == 0
PIX == 1
PCX == 2
PNG == 3

(***************************************************************************)
(* Colour conversion.                                                      *)
(***************************************************************************)
CQ_TBD == 0
CQ_STF == 1
CQ_STE == 2
CQ_000 == 4
CQ_LBR == 8
CQ_FDR == 12

\* the values opt_col takes: not set, or one of the six -c modes
ColorModes == {CQ_TBD, CQ_STF + CQ_000, CQ_STF + CQ_LBR, CQ_STF + CQ_FDR,
               CQ_STE + CQ_000, CQ_STE + CQ_LBR, CQ_STE + CQ_FDR}

\* ste_to_std[16] and std_to_ste[16], indexed from 0 in the source
ste_to_std_tab == <<0, 2, 4, 6, 8, 10, 12, 14, 1, 3, 5, 7, 9, 11, 13, 15>>
std_to_ste_tab == <<0, 8, 1, 9, 2, 10, 3, 11, 4, 12, 5, 13, 6, 14, 7, 15>>
ste_to_std(n) == ste_to_std_tab[n + 1]
std_to_ste(n) == std_to_ste_tab[n + 1]

\* the tables of 16 values that set_color_mode copies to col_4to8
stf_zerofill ==
  <<0, 32, 64, 96, 128, 160, 192, 224, 0, 32, 64, 96, 128, 160, 192, 224>>
stf_replicated ==
  <<0, 36, 73, 109, 146, 182, 219, 255, 0, 36, 73, 109, 146, 182, 219, 255>>
stf_fullrange ==
  <<0, 36, 72, 109, 145, 182, 218, 255, 0, 36, 72, 109, 145, 182, 218, 255>>
ste_zerofill ==
  <<0, 32, 64, 96, 128, 160, 192, 224, 16, 48, 80, 112, 144, 176, 208, 240>>
ste_replicated ==
  <<0, 34, 68, 102, 136, 170, 204, 238, 17, 51, 85, 119, 153, 187, 221, 255>>
ste_fullrange == ste_replicated

\* the mode set_color_mode stores in opt_col
color_mode(mode) == IF mode = CQ_TBD THEN CQ_STF + CQ_LBR ELSE mode

\* col_used: the table that the switch of set_color_mode picks
col_used(mode) ==
  CASE mode \in {CQ_TBD, CQ_STF + CQ_LBR} -> stf_replicated
    [] mode = CQ_STF + CQ_000 -> stf_zerofill
    [] mode = CQ_STF + CQ_FDR -> stf_fullrange
    [] mode = CQ_STE + CQ_000 -> ste_zerofill
    [] mode = CQ_STE + CQ_LBR -> ste_replicated
    [] mode = CQ_STE + CQ_FDR -> ste_fullrange

\* col_4to8[n] after set_color_mode(mode)
col_4to8(mode, n) == col_used(mode)[n + 1]

\* rgb_8to4[i] as set_color_mode(mode) fills it
rgb_8to4(mode, i) ==
  LET c == std_to_ste(Shr(i, 4))
  IN  c + Shl(c, 4) + Shl(c, 8)

\* v & 0xF00, v & 0x0F0, v & 0x00F for a 12-bit v
MaskR(v) == (v \div 256) * 256
MaskG(v) == ((v \div 16) % 16) * 16
MaskB(v) == v % 16

\* rgb444(r, g, b) with the table of the mode
rgb444(mode, r, g, b) ==
  MaskR(rgb_8to4(mode, r)) + MaskG(rgb_8to4(mode, g)) + MaskB(rgb_8to4(mode, b))

\* lumi without the conversion to the standard bit order
lumi_ste(v) == (v \div 256) * 2 + ((v \div 16) % 16) * 4 + (v % 16)

\* lumi(x) for an RGB444 value x
lumi(v) ==
  ste_to_std(v \div 256) * 2 + ste_to_std((v \div 16) % 16) * 4
    + ste_to_std(v % 16)

(***************************************************************************)
(* RLE encoder.                                                            *)
(***************************************************************************)

\* enc_copy that stores the control byte of each chunk twice
RECURSIVE enc_copy_ctrl2(_, _)
enc_copy_ctrl2(s, l) ==
  IF l > 0
  THEN LET n == IF l > 128 THEN 128 ELSE l
       IN  <<U8(n - 1), U8(n - 1)>> \o SubSeq(s, 1, n)
             \o enc_copy_ctrl2(SubSeq(s, n + 1, Len(s)), l - n)
  ELSE <<>>

\* enc_copy(d, s, l) with d != 0: the bytes written at d (the return value
\* is their number).
RECURSIVE enc_copy(_, _)
enc_copy(s, l) ==
  IF l > 0
  THEN LET n == IF l > 128 THEN 128 ELSE l
       IN  <<U8(n - 1)>> \o SubSeq(s, 1, n)
             \o enc_copy(SubSeq(s, n + 1, Len(s)), l - n)
  ELSE <<>>

\* fill_chunk without the "- (n==130)" correction
fill_chunk_129(l) == IF l > 129 THEN 129 ELSE l

\* the chunk length n chosen by one pass of the loop of enc_fill
fill_chunk(l) == IF l > 129 THEN 129 - (IF l = 130 THEN 1 ELSE 0) ELSE l

\* enc_fill(d, v, l) with d != 0: the bytes written at d, and the value of
\* l when the loop is left (the operand of assert(l == 0)).
RECURSIVE enc_fill(_, _)
enc_fill(v, l) ==
  IF l >= 2
  THEN LET n == fill_chunk(l)
           r == enc_fill(v, l - n)
       IN  [bytes |-> <<U8(257 - n), v>> \o r.bytes, rest |-> r.rest]
  ELSE [bytes |-> <<>>, rest |-> l]

\* repeat_end that compares with the previous byte's successor: the run
\* is measured one byte too long when a different byte follows it
RECURSIVE repeat_end_long(_, _, _, _)
repeat_end_long(s, len, c, k) ==
  IF k < len /\ s[k] = c THEN repeat_end_long(s, len, c, k + 1) ELSE k

\* the index k at which the inner "count repeat" loop of pcx_encode_row
\* stops (s is the row as a sequence, offsets are the source's, from 0)
RECURSIVE repeat_end(_, _, _, _)
repeat_end(s, len, c, k) ==
  IF k < len /\ s[k + 1] = c THEN repeat_end(s, len, c, k + 1) ELSE k

\* the main loop of pcx_encode_row from the state (i, o) with out = dst[0..j-1]
RECURSIVE encode_loop(_, _, _, _, _)
encode_loop(s, len, i, o, out) ==
  IF i < len
  THEN LET c == s[i + 1]
           k == repeat_end(s, len, c, i + 1)
           l == k - i
       IN  IF l >= 2
           THEN LET out1 == IF i > o
                            THEN out \o enc_copy(SubSeq(s, o + 1, i), i - o)
                            ELSE out
                IN  encode_loop(s, len, k, k, out1 \o enc_fill(c, l).bytes)
           ELSE encode_loop(s, len, k, o, out)
  ELSE out \o enc_copy(SubSeq(s, o + 1, i), i - o)

\* pcx_encode_row that hands the whole row to enc_copy
pcx_encode_row_flat(s, len) == enc_copy(s, len)

\* pcx_encode_row(dst, src, len): the bytes written at dst; the return
\* value j is their number.
pcx_encode_row(s, len) == encode_loop(s, len, 0, 0, <<>>)

(***************************************************************************)
(* Files.  A file being read is the record [head, pat, reps]: the bytes    *)
(* head followed by reps copies of the bytes pat.  mf_read returns -1      *)
(* ("missing input data") when fewer than len bytes are left.              *)
(***************************************************************************)
FLen(f) == Len(f.head) + Len(f.pat) * f.reps

\* the i-th byte of the file, i in 1..FLen(f)
FAt(f, i) ==
  IF i <= Len(f.head) THEN f.head[i]
  ELSE f.pat[((i - Len(f.head) - 1) % Len(f.pat)) + 1]

\* the file holding exactly the bytes s
FileOf(s) == [head |-> s, pat |-> <<>>, reps |-> 0]

\* mf_read(mf, data, len) with p bytes consumed so far succeeds
mf_read_ok(f, p, len) == p + len <= FLen(f)

(***************************************************************************)
(* RLE decoder: one pass of the loop "decode an entire bitplan line" of    *)
(* rle_read.  The result is the new reader state; ret = "err" is the       *)
(* return -1 of rle_read, msg the error it reported.                       *)
(***************************************************************************)
\* rle_opcode that checks the write position against sizeof(raw) instead
\* of bytes_per_plan
rle_opcode_raw80(f, p, r, xx, budget) ==
  IF ~ mf_read_ok(f, p, 2)
  THEN [fpos |-> p, raw |-> r, x |-> xx, ret |-> "err", msg |-> "missing"]
  ELSE
    LET c == FAt(f, p + 1)
        v == FAt(f, p + 2)
        n == IF c >= 128 THEN 257 - c ELSE c + 1
    IN  IF xx + n > 80
        THEN [fpos |-> p + 2, raw |-> r, x |-> xx, ret |-> "err",
              msg |-> "rle-overflow"]
        ELSE IF c < 128 /\ ~ mf_read_ok(f, p + 2, n - 1)
        THEN [fpos |-> p + 2, raw |-> r, x |-> xx, ret |-> "err",
              msg |-> "missing"]
        ELSE [fpos |-> IF c >= 128 THEN p + 2 ELSE p + 2 + (n - 1),
              raw |-> [i \in (DOMAIN r) \cup (xx .. xx + n - 1) |->
                         IF i \notin xx .. xx + n - 1 THEN r[i]
                         ELSE IF c >= 128 \/ i = xx THEN v
                         ELSE FAt(f, p + 2 + (i - xx))],
              x |-> xx + n, ret |-> "none", msg |-> "none"]

rle_opcode(f, p, r, xx, budget) ==
  IF ~ mf_read_ok(f, p, 2)
  THEN [fpos |-> p, raw |-> r, x |-> xx, ret |-> "err", msg |-> "missing"]
  ELSE
    LET c == FAt(f, p + 1)
        v == FAt(f, p + 2)
    IN  IF c >= 128
        THEN \* Fill 257-rle[0] with rle[1]
             LET n == 257 - c
             IN  IF xx + n > budget
                 THEN [fpos |-> p + 2, raw |-> r, x |-> xx, ret |-> "err",
                       msg |-> "rle-fill overflow"]
                 ELSE [fpos |-> p + 2,
                       raw |-> [i \in (DOMAIN r) \cup (xx .. xx + n - 1) |->
                                  IF i \in xx .. xx + n - 1 THEN v ELSE r[i]],
                       x |-> xx + n, ret |-> "none", msg |-> "none"]
        ELSE \* Copy rle[1] and rle[0] more bytes
             LET n == c + 1
             IN  IF xx + n > budget
                 THEN [fpos |-> p + 2, raw |-> r, x |-> xx, ret |-> "err",
                       msg |-> "rle-copy overflow"]
                 ELSE IF ~ mf_read_ok(f, p + 2, n - 1)
                 THEN [fpos |-> p + 2, raw |-> r, x |-> xx, ret |-> "err",
                       msg |-> "missing"]
                 ELSE [fpos |-> p + 2 + (n - 1),
                       raw |-> [i \in (DOMAIN r) \cup (xx .. xx + n - 1) |->
                                  IF i = xx THEN v
                                  ELSE IF i \in xx + 1 .. xx + n - 1
                                       THEN FAt(f, p + 2 + (i - xx))
                                       ELSE r[i]],
                       x |-> xx + n, ret |-> "none", msg |-> "none"]

\* the bytes s as a buffer indexed from 0
AsBuffer(s) == [i \in 0 .. Len(s) - 1 |-> s[i + 1]]

\* the empty buffer: no offset of raw[] written yet
NoBytes == [i \in {} |-> 0]

(***************************************************************************)
(* Inputs.                                                                 *)
(***************************************************************************)
\* sequences over S of length 1..n
RECURSIVE SeqsUpTo(_, _)
SeqsUpTo(S, n) ==
  IF n = 0 THEN {}
  ELSE SeqsUpTo(S, n - 1) \cup [1 .. n -> S]

\* the row of length len that repeats the pattern pat
Periodic(pat, len) == [i \in 1 .. len |-> pat[((i - 1) % Len(pat)) + 1]]

\* the l bytes at s for enc_copy: v, v+1, ...
Ramp(v, l) == [i \in 1 .. l |-> U8(v + i - 1)]

(***************************************************************************)
(* Specification SpecEnc: enc_copy and enc_fill on their own.              *)
(***************************************************************************)
IdleEnc == /\ eL = 0 /\ eV = 0 /\ eS = <<>> /\ eOut = <<>> /\ eRest = 0
IdleRow == src = <<>>
IdleDec == /\ file = FileOf(<<>>) /\ fpos = 0 /\ bpp = 0 /\ raw = NoBytes /\ x = 0
           /\ ret = "none" /\ msg = "none"
IdleImg == /\ id = 0 /\ y = 0 /\ z = 0 /\ bits = NoBytes /\ img = "none"
NoPng == [w |-> 0, h |-> 0, d |-> 0, c |-> 0, t |-> 0, colours |-> <<>>,
          sx |-> 0, sy |-> 0]

IdlePng == /\ opt_col = 0 /\ png = NoPng
           /\ lut = <<>>
           /\ ncolors = 0 /\ rev = NoBytes /\ cur = 0 /\ unp = <<>>

IdleCol == comp = 0 /\ c4 = 0 /\ c8 = 0 /\ back = 0

IdlePath == ipath = <<>> /\ opt_dir = 0 /\ asize = 0 /\ wend = 0

IdleMain == /\ args = <<>> /\ opt_out = 0 /\ opath = <<>> /\ itype = 0
            /\ ofile = FileOf(<<>>) /\ otype = 0 /\ ecode = 0
            /\ warn = "none" /\ ste_detect = 0 /\ argv = <<>>

InitEnc ==
  /\ pc = "enc"
  /\ eL \in 1 .. MaxRun
  /\ eV \in Vals
  /\ eS = Ramp(eV, eL)
  /\ eOut = <<>>
  /\ eRest = 0
  /\ IdleRow /\ IdleDec /\ IdleImg /\ IdlePng
  /\ IdleMain
  /\ IdleCol
  /\ rd = {}
  /\ IdlePath

EncCopy ==
  /\ pc = "enc"
  /\ pc' = "copied"
  /\ eOut' = enc_copy(eS, eL)
  /\ UNCHANGED <<eL, eV, eS, eRest, rowVars, decVars, imgVars, pngVars,
                 mainVars>>
  /\ UNCHANGED <<colVars, rd, pathVars>>

\* pcx_encode_row calls enc_fill only with l >= 2
EncFill ==
  /\ pc = "enc"
  /\ eL >= 2
  /\ pc' = "filled"
  /\ eOut' = enc_fill(eV, eL).bytes
  /\ eRest' = enc_fill(eV, eL).rest
  /\ UNCHANGED <<eL, eV, eS, rowVars, decVars, imgVars, pngVars,
                 mainVars>>
  /\ UNCHANGED <<colVars, rd, pathVars>>

NextEnc == EncCopy \/ EncFill

SpecEnc == InitEnc /\ [][NextEnc]_vars

(***************************************************************************)
(* Specification SpecRow: pcx_encode_row on one row-plane, then the        *)
(* decoder loop of rle_read on the bytes it wrote, with the row's length   *)
(* as budget.                                                              *)
(***************************************************************************)
InitRow ==
  /\ pc = "row"
  /\ \E pat \in SeqsUpTo(Vals, MaxPat), len \in 1 .. RowMax :
       src = Periodic(pat, len)
  /\ IdleEnc /\ IdleDec /\ IdleImg /\ IdlePng
  /\ IdleMain
  /\ IdleCol
  /\ rd = {}
  /\ IdlePath

EncodeRow ==
  /\ pc = "row"
  /\ pc' = "decode"
  /\ file' = FileOf(pcx_encode_row(src, Len(src)))
  /\ fpos' = 0
  /\ bpp' = Len(src)
  /\ raw' = NoBytes
  /\ x' = 0
  /\ ret' = "none"
  /\ msg' = "none"
  /\ UNCHANGED <<encVars, rowVars, imgVars, pngVars,
                 mainVars>>
  /\ UNCHANGED <<colVars, rd, pathVars>>

\* one opcode of the decoder loop, for (x = 0; x < bytes_per_plan; )
DecodeOp ==
  /\ pc = "decode"
  /\ ret = "none"
  /\ x < bpp
  /\ LET n == rle_opcode(file, fpos, raw, x, bpp)
     IN  /\ fpos' = n.fpos
         /\ raw' = n.raw
         /\ x' = n.x
         /\ ret' = n.ret
         /\ msg' = n.msg
  /\ UNCHANGED <<pc, file, bpp, encVars, rowVars, imgVars, pngVars,
                 mainVars>>
  /\ UNCHANGED <<colVars, rd, pathVars>>

\* the loop is left with x == bytes_per_plan
DecodeEnd ==
  /\ pc = "decode"
  /\ ret = "none"
  /\ x >= bpp
  /\ pc' = "decoded"
  /\ ret' = "ok"
  /\ UNCHANGED <<file, fpos, bpp, raw, x, msg, encVars, rowVars, imgVars, pngVars,
                 mainVars>>
  /\ UNCHANGED <<colVars, rd, pathVars>>

NextRow == EncodeRow \/ DecodeOp \/ DecodeEnd

SpecRow == InitRow /\ [][NextRow]_vars

(***************************************************************************)
(* Specification SpecDec: rle_read, called by mypix_from_file on a         *)
(* compressed file whose header has been read and copied to pix->bits.     *)
(***************************************************************************)
\* control bytes of the opcodes that start the compressed data
CtrlSamples == {0, 38, 39, 79, 127, 128, 177, 216, 217, 255}

\* the bytes of the opcode of control byte c: a fill of value 170, or a
\* copy of the c+1 bytes c, c+1, ...
OpBytes(c) == IF c >= 128 THEN <<c, 170>> ELSE <<c>> \o Ramp(c, c + 1)

RECURSIVE OpsBytes(_)
OpsBytes(cs) ==
  IF cs = <<>> THEN <<>> ELSE OpBytes(Head(cs)) \o OpsBytes(Tail(cs))

\* the 16 palette words 0x000, 0x111, ..., 0xFFF
RampPal == [i \in 1 .. 16 |-> (i - 1) * 273]

\* the 34 bytes of a Degas header: the id and 16 palette words, big-endian
RECURSIVE PalBytes(_)
PalBytes(pal) ==
  IF pal = <<>> THEN <<>>
  ELSE <<Shr(Head(pal), 8), Head(pal) % 256>> \o PalBytes(Tail(pal))
HeaderOf(idword, pal) == <<Shr(idword, 8), idword % 256>> \o PalBytes(pal)

\* geometry of rle_read / save_as_pcx for degas[i]
tiles_per_line(i) == Shr(degas[i].w, 4)
bytes_per_plan(i) == Shl(tiles_per_line(i), 1)
bytes_per_line(i) == Shl(bytes_per_plan(i), degas[i].d)
bytes_per_tile(i) == Shl(2, degas[i].d)
nbplans(i) == Shl(1, degas[i].d)

\* a row-plane of one fill opcode of value 85
PlainPlane(i) == <<U8(257 - bytes_per_plan(i)), 85>>

InitDec ==
  /\ pc = "rle_read"
  /\ id \in {1, 3, 5}
  /\ \E cs \in SeqsUpTo(CtrlSamples, MaxOps),
        short \in {0, 2} :
       file = [head |-> HeaderOf(degas[id].id, RampPal) \o OpsBytes(cs),
               pat |-> PlainPlane(id),
               reps |-> degas[id].h * nbplans(id) - short]
  /\ FLen(file) >= degas[id].minsz          \* checked by mypix_from_file
  /\ fpos = 34
  /\ bpp = bytes_per_plan(id)
  /\ raw = NoBytes
  /\ x = 0 /\ y = 0 /\ z = 0
  /\ ret = "none" /\ msg = "none"
  /\ bits = AsBuffer(SubSeq(file.head, 1, 34))
  /\ img = "alloc"
  /\ IdleEnc /\ IdleRow /\ IdlePng
  /\ IdleMain
  /\ IdleCol
  /\ rd = {}
  /\ IdlePath

\* one opcode of the current row-plane; on -1 mypix_from_file frees the
\* image and returns 0
RleReadOp ==
  /\ pc = "rle_read"
  /\ x < bpp
  /\ LET n == rle_opcode(file, fpos, raw, x, bpp)
     IN  /\ fpos' = n.fpos
         /\ raw' = n.raw
         /\ x' = n.x
         /\ ret' = n.ret
         /\ msg' = n.msg
         /\ IF n.ret = "err"
            THEN pc' = "done" /\ img' = "null"
            ELSE UNCHANGED <<pc, img>>
  /\ UNCHANGED <<file, bpp, id, y, z, bits, encVars, rowVars, pngVars,
                 mainVars>>
  /\ UNCHANGED <<colVars, rd, pathVars>>

\* offset k of pix->bits is one the interlacing loop writes for plane zz
\* of the line that starts at offset dst: row = dst + (z<<1), two bytes
\* per tile, then row += bytes_per_tile
in_plane(dst, bpl, bpt, zz, k) ==
  /\ k >= dst
  /\ k < dst + bpl
  /\ ((k - dst) % bpt) \div 2 = zz

\* raw_offset that takes the first byte of each word twice
raw_offset_even(dst, bpt, zz, k) ==
  LET rel == k - (dst + 2 * zz)
  IN  2 * (rel \div bpt)

\* the offset of raw[] copied to offset k of pix->bits
raw_offset(dst, bpt, zz, k) ==
  LET rel == k - (dst + 2 * zz)
  IN  2 * (rel \div bpt) + (rel % bpt)

\* the row-plane is complete: interlace it into pix->bits and go to the
\* next plane, the next line, or return 0
RleReadPlane ==
  /\ pc = "rle_read"
  /\ x >= bpp
  /\ \E bpl \in {bytes_per_line(id)}, bpt \in {bytes_per_tile(id)} :
      \E dst \in {34 + y * bpl} :
         bits' = [k \in (0 .. 33) \cup
                          {o \in dst .. dst + bpl - 1 :
                             in_plane(dst, bpl, bpt, z, o)
                               \/ o \in DOMAIN bits} |->
                    IF in_plane(dst, bpl, bpt, z, k)
                    THEN raw[raw_offset(dst, bpt, z, k)]
                    ELSE bits[k]]
  /\ x' = 0
  /\ IF z + 1 < nbplans(id)
     THEN z' = z + 1 /\ UNCHANGED <<y, pc, ret>>
     ELSE /\ z' = 0
          /\ y' = y + 1
          /\ IF y + 1 < degas[id].h
             THEN UNCHANGED <<pc, ret>>
             ELSE pc' = "loaded" /\ ret' = "ok"
  /\ UNCHANGED <<file, fpos, bpp, raw, msg, id, img, encVars, rowVars, pngVars,
                 mainVars>>
  /\ UNCHANGED <<colVars, rd, pathVars>>

NextDec == RleReadOp \/ RleReadPlane

SpecDec == InitDec /\ [][NextDec]_vars

(***************************************************************************)
(* The source PNG.  It is given by its size, the RGB8 colours it uses and  *)
(* the pattern that places them: pixel (x, y) has the colour number        *)
(* (x*sx + y*sy) mod n of its n colours.  Every colour is used.            *)
(***************************************************************************)
ColourPool ==
  << <<0, 0, 0>>,       <<255, 255, 255>>, <<16, 16, 16>>,   <<32, 32, 32>>,
     <<32, 0, 0>>,      <<0, 16, 0>>,      <<0, 0, 64>>,     <<128, 0, 0>>,
     <<0, 128, 0>>,     <<0, 0, 128>>,     <<18, 52, 86>>,   <<31, 63, 95>>,
     <<240, 0, 240>>,   <<112, 112, 112>>, <<144, 96, 48>>,  <<48, 96, 144>>,
     <<224, 224, 0>>,   <<80, 160, 240>>,  <<160, 80, 0>>,   <<64, 64, 192>> >>

\* the n colours of the pool from number start on
Colours(start, n) ==
  [k \in 1 .. n |-> ColourPool[((start + k - 1) % Len(ColourPool)) + 1]]

\* s->get(png, x, y): the RGB444 value of pixel (x, y)
get_pixel(mode, p, xx, yy) ==
  LET c == p.colours[((xx * p.sx + yy * p.sy) % Len(p.colours)) + 1]
  IN  rgb444(mode, c[1], c[2], c[3])

\* the RGB444 values x with colcnt[x].cnt > 0 after the counting loop
counted(mode, p) ==
  { rgb444(mode, p.colours[k][1], p.colours[k][2], p.colours[k][3]) :
      k \in 1 .. Len(p.colours) }

(***************************************************************************)
(* mypix_from_png: format, palette and header.                             *)
(***************************************************************************)
\* find_id that compares the width alone
find_id_w(w, h) ==
  IF \E i \in {0, 2, 4} : degas[i].w = w
  THEN CHOOSE i \in {0, 2, 4} :
         /\ degas[i].w = w
         /\ \A k \in {0, 2, 4} : degas[k].w = w => i <= k
  ELSE 6

\* the loop "for (id=0; id<6; id += 2)": the format of a w x h image, or 6
find_id(w, h) ==
  IF \E i \in {0, 2, 4} : degas[i].w = w /\ degas[i].h = h
  THEN CHOOSE i \in {0, 2, 4} :
         /\ degas[i].w = w /\ degas[i].h = h
         /\ \A k \in {0, 2, 4} : (degas[k].w = w /\ degas[k].h = h) => i <= k
  ELSE 6

\* lutmax taken from the palette size of the descriptor
lutmax_c(i) == degas[i].c

\* lutmax = 1<<(1<<log2plans)
lutmax(i) == Shl(1, Shl(1, degas[i].d))

\* sort_colorbright on the colours S: a sequence in the order of cl_cmp.
\* qsort leaves the order of colours of equal lumi open: tie picks it.
RECURSIVE sort_colorbright(_, _)
sort_colorbright(S, tie) ==
  IF S = {} THEN <<>>
  ELSE LET key(c) == lumi(c) * 4096 + (IF tie = "up" THEN c ELSE 4095 - c)
           m == CHOOSE c \in S : \A e \in S : key(c) <= key(e)
       IN  <<m>> \o sort_colorbright(S \ {m}, tie)

\* lut[16] with the entries after the colours left at zero
fill_lut_zero(sorted) ==
  [k \in 1 .. 16 |-> IF k <= Len(sorted) THEN sorted[k] ELSE 0]

\* lut[16] after the two loops that fill it from the sorted colours
fill_lut(sorted) ==
  [k \in 1 .. 16 |-> IF k <= Len(sorted) THEN sorted[k] ELSE 240]

\* the 16 palette words written after the signature ("Copy palette")
palette_words(i, l) ==
  [k \in 1 .. 16 |->
     IF k - 1 < degas[i].c THEN l[k]
     ELSE IF degas[i].c = 0 /\ k = 1 THEN 4095
     ELSE 0]

\* the reverse table filled from the last colour down: n - 1 - y
reverse_lut_down(l, n) ==
  [c \in {l[k] : k \in 1 .. n} |-> n - (CHOOSE k \in 1 .. n : l[k] = c)]

\* the reverse table: colcnt[lut[y]].rgb = y for y < n
reverse_lut(l, n) ==
  [c \in {l[k] : k \in 1 .. n} |-> (CHOOSE k \in 1 .. n : l[k] = c) - 1]

\* the colour types of png.h
PNG_COLOR_TYPE_GRAY == 0
PNG_COLOR_TYPE_RGB == 2
PNG_COLOR_TYPE_PALETTE == 3
PNG_COLOR_TYPE_RGBA == 6

\* supported[] with a line for RGB of 16 bits
supported_16 ==
  { <<1, 1, PNG_COLOR_TYPE_GRAY>>, <<2, 1, PNG_COLOR_TYPE_GRAY>>,
    <<4, 1, PNG_COLOR_TYPE_GRAY>>, <<8, 1, PNG_COLOR_TYPE_GRAY>>,
    <<2, 1, PNG_COLOR_TYPE_PALETTE>>, <<4, 1, PNG_COLOR_TYPE_PALETTE>>,
    <<8, 1, PNG_COLOR_TYPE_PALETTE>>, <<8, 3, PNG_COLOR_TYPE_RGB>>,
    <<8, 4, PNG_COLOR_TYPE_RGBA>>, <<16, 3, PNG_COLOR_TYPE_RGB>> }

\* supported[]: the tuples of depth, channels and colour type
supported ==
  { <<1, 1, PNG_COLOR_TYPE_GRAY>>, <<2, 1, PNG_COLOR_TYPE_GRAY>>,
    <<4, 1, PNG_COLOR_TYPE_GRAY>>, <<8, 1, PNG_COLOR_TYPE_GRAY>>,
    <<2, 1, PNG_COLOR_TYPE_PALETTE>>, <<4, 1, PNG_COLOR_TYPE_PALETTE>>,
    <<8, 1, PNG_COLOR_TYPE_PALETTE>>, <<8, 3, PNG_COLOR_TYPE_RGB>>,
    <<8, 4, PNG_COLOR_TYPE_RGBA>> }

\* mypix_from_png up to assert(bits == img->pix.bits + 34)
PngPalette ==
  /\ pc = "from_png"
  /\ \E i \in {find_id(png.w, png.h)} :
       IF i = 6
       THEN /\ msg' = "incompatible image dimension"
            /\ pc' = "done"
            /\ img' = "null"
            /\ UNCHANGED <<id, bits, lut, ncolors, rev, cur>>
       ELSE IF <<png.d, png.c, png.t>> \notin supported
       THEN /\ msg' = "incompatible image format"
            /\ pc' = "done"
            /\ id' = i
            /\ img' = "null"
            /\ UNCHANGED <<bits, lut, ncolors, rev, cur>>
       ELSE \E S \in {counted(opt_col, png)} :
         IF Cardinality(S) > lutmax(i)
         THEN /\ msg' = "too many colors"
              /\ pc' = "done"
              /\ id' = i
              /\ img' = "null"
              /\ UNCHANGED <<bits, lut, ncolors, rev, cur>>
         ELSE \E tie \in {"up", "down"} :
              \E l \in {fill_lut(sort_colorbright(S, tie))} :
                /\ lut' = l
                /\ ncolors' = Cardinality(S)
                /\ id' = i
                /\ img' = "alloc"
                /\ bits' = AsBuffer(HeaderOf(degas[i].id, palette_words(i, l)))
                /\ cur' = 34
                /\ rev' = reverse_lut(l, Cardinality(S))
                /\ msg' = "none"
                /\ pc' = "blit"
  /\ UNCHANGED <<y, z, unp, opt_col, png, file, fpos, bpp, raw, x, ret,
                 encVars, rowVars,
                 mainVars>>
  /\ UNCHANGED <<colVars, rd, pathVars>>

\* the loops "Blit pixels" as a whole: 2 bytes for each line, tile and plane
PngBlit ==
  /\ pc = "blit"
  /\ y = 0
  /\ y' = degas[id].h
  /\ cur' = cur + degas[id].h * Shr(degas[id].w, 4) * nbplans(id) * 2
  /\ pc' = "converted"
  /\ UNCHANGED <<id, z, bits, img, opt_col, png, lut, ncolors, rev, unp,
                 decVars, encVars, rowVars,
                 mainVars>>
  /\ UNCHANGED <<colVars, rd, pathVars>>

(***************************************************************************)
(* Specification SpecPal: mypix_from_png on PNGs of the three sizes (and   *)
(* of two others) with 1..MaxColours colours, the pixel data left out.     *)
(***************************************************************************)
\* the formats of the source PNGs: three of supported[], two of 16 bits
FmtSamples ==
  { <<8, 3, PNG_COLOR_TYPE_RGB>>, <<8, 4, PNG_COLOR_TYPE_RGBA>>,
    <<8, 1, PNG_COLOR_TYPE_PALETTE>>, <<16, 3, PNG_COLOR_TYPE_RGB>>,
    <<16, 4, PNG_COLOR_TYPE_RGBA>> }

DimSamples == {<<320, 200>>, <<640, 200>>, <<640, 400>>, <<320, 400>>,
               <<640, 480>>, <<200, 320>>, <<319, 200>>}

InitPal ==
  /\ pc = "from_png"
  /\ opt_col \in ColorModes
  /\ \E dim \in DimSamples, n \in 1 .. MaxColours, start \in 0 .. MaxStart,
        f \in FmtSamples :
       png = [w |-> dim[1], h |-> dim[2], d |-> f[1], c |-> f[2], t |-> f[3],
              colours |-> Colours(start, n), sx |-> 1, sy |-> 1]
  /\ lut = <<>> /\ ncolors = 0 /\ rev = NoBytes /\ cur = 0 /\ unp = <<>>
  /\ IdleEnc /\ IdleRow /\ IdleDec /\ IdleImg
  /\ IdleMain
  /\ IdleCol
  /\ rd = {}
  /\ IdlePath

NextPal == PngPalette \/ PngBlit

SpecPal == InitPal /\ [][NextPal]_vars

(***************************************************************************)
(* mypix_from_png: the pixels, and get_st_pixel.                           *)
(***************************************************************************)
\* (n >> b) & 1
BitAt(n, b) == Shr(n, b) % 2

\* colcnt[s->get(png, x, y)].rgb for the pixels x of line yy: their indices
line_indices(yy) ==
  [xx \in 0 .. png.w - 1 |-> rev[get_pixel(opt_col, png, xx, yy)]]

\* the loop "Per pixel in block": bv |= bm for the pixels from xx on whose
\* index has bit zz, bm going down from 0x8000 to 0
RECURSIVE pack_bits(_, _, _, _)
pack_bits(il, xx, zz, bm) ==
  IF bm = 0 THEN 0
  ELSE (IF BitAt(il[xx], zz) # 0 THEN bm ELSE 0)
         + pack_bits(il, xx + 1, zz, Shr(bm, 1))

\* the word of a tile with the bit of plane 0 for every plane
pack_word_z0(il, x0, zz) == pack_bits(il, x0, 0, 32768)

\* bv for the tile that starts at pixel x0 and the plane zz
pack_word(il, x0, zz) == pack_bits(il, x0, zz, 32768)

\* the words of a line in the order the loops on x and z write them
line_words(il, i) ==
  [j \in 1 .. tiles_per_line(i) * nbplans(i) |->
     pack_word(il, 16 * ((j - 1) \div nbplans(i)), (j - 1) % nbplans(i))]

\* *bits++ = bv>>8; *bits++ = bv; for each word
line_bytes(wd) ==
  [b \in 1 .. 2 * Len(wd) |->
     IF b % 2 = 1 THEN Shr(wd[(b + 1) \div 2], 8) ELSE U8(wd[b \div 2])]

\* the loop on p of get_st_pixel: col |= ((bits[y] >> bitnum) & 1) << p
RECURSIVE st_planes(_, _, _, _, _)
st_planes(b, off, bitnum, p, np) ==
  IF p < np
  THEN Shl(BitAt(b[off], bitnum), p) + st_planes(b, off + 2, bitnum, p + 1, np)
  ELSE 0

\* the offset with a header of 33 bytes skipped
st_offset_33(i, xx, yy) ==
  LET w == Shr(degas[i].w + 15, 4) * 16
      bpl == Shr(Shl(w, degas[i].d), 3)
  IN  yy * bpl + Shl(Shr(xx, 4), degas[i].d + 1) + (Shr(xx, 3) % 2) + 33

\* get_st_pixel: y after "Using y as offset", the offset of the byte read
\* for plane 0
st_offset(i, xx, yy) ==
  LET w == Shr(degas[i].w + 15, 4) * 16
      bpl == Shr(Shl(w, degas[i].d), 3)
  IN  yy * bpl + Shl(Shr(xx, 4), degas[i].d + 1) + (Shr(xx, 3) % 2) + 34

\* the offsets pix->bits[y] of the loop on p of get_st_pixel
st_reads(i, xx, yy) ==
  {st_offset(i, xx, yy) + 2 * p : p \in 0 .. Shl(1, degas[i].d) - 1}

\* get_st_pixel with bitnum = x & 7
get_st_pixel_lsb(b, i, xx, yy) ==
  st_planes(b, st_offset(i, xx, yy), xx % 8, 0, Shl(1, degas[i].d))

\* get_st_pixel(pix, x, y) for the picture of format i with the bytes b
get_st_pixel(b, i, xx, yy) ==
  st_planes(b, st_offset(i, xx, yy), 7 - (xx % 8), 0, Shl(1, degas[i].d))

\* one pass of the loop "Per row": the line y is written at the cursor.
\* Of the pixel data, bits keeps the line written last.
PackLine ==
  /\ pc = "blit"
  /\ y < degas[id].h
  /\ \E lb \in {line_bytes(line_words(line_indices(y), id))} :
       bits' = [k \in (0 .. 33) \cup (cur .. cur + Len(lb) - 1) |->
                  IF k < 34 THEN bits[k] ELSE lb[k - cur + 1]]
  /\ cur' = cur + 2 * tiles_per_line(id) * nbplans(id)
  /\ y' = y + 1
  /\ pc' = "unpack"
  /\ UNCHANGED <<id, z, img, opt_col, png, lut, ncolors, rev, unp,
                 decVars, encVars, rowVars,
                 mainVars>>
  /\ UNCHANGED <<colVars, rd, pathVars>>

\* get_st_pixel on every pixel of the line written last
GetStLine ==
  /\ pc = "unpack"
  /\ unp' = [xx \in 0 .. degas[id].w - 1 |-> get_st_pixel(bits, id, xx, y - 1)]
  /\ rd' = UNION {st_reads(id, xx, y - 1) : xx \in 0 .. degas[id].w - 1}
  /\ pc' = "blit"
  /\ UNCHANGED <<id, y, z, bits, img, opt_col, png, lut, ncolors, rev, cur,
                 decVars, encVars, rowVars,
                 mainVars>>
  /\ UNCHANGED <<colVars, pathVars>>

\* the end of the loop "Per row": return img
PackDone ==
  /\ pc = "blit"
  /\ y = degas[id].h
  /\ pc' = "converted"
  /\ UNCHANGED <<id, y, z, bits, img, opt_col, png, lut, ncolors, rev, cur,
                 unp, decVars, encVars, rowVars,
                 mainVars>>
  /\ UNCHANGED <<colVars, rd, pathVars>>

(***************************************************************************)
(* Specification SpecPack: mypix_from_png line by line on PNGs of the      *)
(* three sizes, each line read back with get_st_pixel.                     *)
(***************************************************************************)
\* the pattern of a picture: diagonal stripes for three colours, a skewed
\* pattern for as many colours as the format takes
PatOf(i, n) == IF n = lutmax(i) THEN <<7, 3>> ELSE <<1, 1>>

InitPack ==
  /\ pc = "from_png"
  /\ opt_col = CQ_TBD
  /\ \E i \in {0, 2, 4}, n \in 1 .. MaxColours :
     \E c \in {Cardinality(counted(opt_col, [colours |-> Colours(0, n)]))} :
       /\ c \in {3, lutmax(i)}
       /\ png = [w |-> degas[i].w, h |-> degas[i].h,
                 d |-> 8, c |-> 3, t |-> PNG_COLOR_TYPE_RGB,
                 colours |-> Colours(0, n),
                 sx |-> PatOf(i, c)[1], sy |-> PatOf(i, c)[2]]
  /\ lut = <<>> /\ ncolors = 0 /\ rev = NoBytes /\ cur = 0 /\ unp = <<>>
  /\ IdleEnc /\ IdleRow /\ IdleDec /\ IdleImg
  /\ IdleMain
  /\ IdleCol
  /\ rd = {}
  /\ IdlePath

NextPack == PngPalette \/ PackLine \/ GetStLine \/ PackDone

SpecPack == InitPack /\ [][NextPack]_vars

(***************************************************************************)
(* The program: main.  A picture in memory is the 34 bytes of its header   *)
(* and its first line in bits; here every line of a picture is the same as *)
(* the first, in the input files and in the source PNGs.                   *)
(***************************************************************************)
\* the 8 bytes png_sig_cmp looks for
PngSig == <<137, 80, 78, 71, 13, 10, 26, 10>>

\* find_degas that compares the low byte of the id alone
find_degas_low(idword) ==
  IF \E i \in 0 .. 5 : degas[i].id % 256 = idword % 256
  THEN CHOOSE i \in 0 .. 5 : degas[i].id % 256 = idword % 256
  ELSE 6

\* the loop "for (i=0; i<6; ++i)" of mypix_from_file: the format of id, or 6
find_degas(idword) ==
  IF \E i \in 0 .. 5 : degas[i].id = idword
  THEN CHOOSE i \in 0 .. 5 : degas[i].id = idword
  ELSE 6

\* the loop of rle_read on one row-plane, from file offset p with x = xx
RECURSIVE rle_plane(_, _, _, _, _)
rle_plane(f, p, r, xx, budget) ==
  IF xx >= budget
  THEN [fpos |-> p, raw |-> r, ret |-> "ok", msg |-> "none"]
  ELSE LET o == rle_opcode(f, p, r, xx, budget)
       IN  IF o.ret = "err"
           THEN [fpos |-> o.fpos, raw |-> o.raw, ret |-> "err", msg |-> o.msg]
           ELSE rle_plane(f, o.fpos, o.raw, o.x, budget)

\* the loop of rle_read on the planes zz.. of the first line: acc holds
\* the bytes of the line interlaced so far
RECURSIVE rle_line(_, _, _, _, _, _)
rle_line(f, p, r, i, zz, acc) ==
  IF zz >= nbplans(i)
  THEN [fpos |-> p, line |-> acc, ret |-> "ok", msg |-> "none"]
  ELSE LET d == rle_plane(f, p, r, 0, bytes_per_plan(i))
       IN  IF d.ret = "err"
           THEN [fpos |-> d.fpos, line |-> acc, ret |-> "err", msg |-> d.msg]
           ELSE rle_line(f, d.fpos, d.raw, i, zz + 1,
                  [k \in (DOMAIN acc) \cup
                         {o \in 34 .. 34 + bytes_per_line(i) - 1 :
                            in_plane(34, bytes_per_line(i), bytes_per_tile(i),
                                     zz, o)} |->
                     IF in_plane(34, bytes_per_line(i), bytes_per_tile(i), zz, k)
                     THEN d.raw[raw_offset(34, bytes_per_tile(i), zz, k)]
                     ELSE acc[k]])

\* mypix_from_file: the image (its bits), or none with the error reported
mypix_from_file(f) ==
  IF ~ mf_read_ok(f, 0, 34)
  THEN [img |-> "null", id |-> 6, bits |-> NoBytes, fpos |-> 0,
        msg |-> "read error"]
  ELSE \* id = (hd[0]<<8) | hd[1]
  LET i == find_degas(Shl(FAt(f, 1), 8) + FAt(f, 2))
      hd == [k \in 0 .. 33 |-> FAt(f, k + 1)]
  IN  IF i = 6
      THEN [img |-> "null", id |-> 6, bits |-> NoBytes, fpos |-> 34,
            msg |-> "not a png"]
      ELSE IF FLen(f) < degas[i].minsz
      THEN [img |-> "null", id |-> i, bits |-> NoBytes, fpos |-> 34,
            msg |-> "too short"]
      ELSE IF degas[i].rle = 0
      THEN IF ~ mf_read_ok(f, 34, 32000)
           THEN [img |-> "null", id |-> i, bits |-> NoBytes, fpos |-> 34,
                 msg |-> "read error"]
           ELSE [img |-> "alloc", id |-> i,
                 bits |-> [k \in 0 .. 34 + bytes_per_line(i) - 1 |->
                             FAt(f, k + 1)],
                 fpos |-> 34 + 32000, msg |-> "none"]
      ELSE LET d == rle_line(f, 34, NoBytes, i, 0, hd)
               all == 34 + degas[i].h * (d.fpos - 34)
           IN  IF d.ret = "err"
               THEN [img |-> "null", id |-> i, bits |-> NoBytes,
                     fpos |-> d.fpos, msg |-> d.msg]
               ELSE IF all > FLen(f)
               THEN [img |-> "null", id |-> i, bits |-> NoBytes,
                     fpos |-> FLen(f), msg |-> "missing"]
               ELSE [img |-> "alloc", id |-> i, bits |-> d.line,
                     fpos |-> all, msg |-> "none"]

\* tolower on the characters of the samples
tolower(c) ==
  CASE c = "P" -> "p" [] c = "N" -> "n" [] c = "G" -> "g"
    [] c = "I" -> "i" [] c = "C" -> "c" [] OTHER -> c

\* strrchr(path, '.'): the path from its last dot on, <<>> without a dot
strrchr_dot(path) ==
  LET dots == {k \in 1 .. Len(path) : path[k] = "."}
  IN  IF dots = {} THEN <<>>
      ELSE SubSeq(path, CHOOSE k \in dots : \A j \in dots : j <= k, Len(path))

\* guess_type_from_path (the sample paths have no directory part)
guess_type_from_path(path) ==
  LET ext == strrchr_dot(path)
  IN  IF path # <<>> /\ ext # <<>> /\ Len(ext) = 4 /\ tolower(ext[2]) = "p"
      THEN IF tolower(ext[3]) = "n" /\ tolower(ext[4]) = "g" THEN PNG
           ELSE IF ext[4] \in {"1", "2", "3"}
             THEN IF tolower(ext[3]) = "i" THEN PIX
                  ELSE IF tolower(ext[3]) = "c" THEN PCX
                  ELSE PXX
           ELSE PXX
      ELSE PXX

\* save_as_pcx: raw[] for the plane zz of the line in b
raw_plane(b, i, zz) ==
  [j \in 1 .. Shl(Shr(degas[i].w, 4), 1) |->
     b[34 + Shl(zz, 1) + ((j - 1) \div 2) * Shl(2, degas[i].d) + ((j - 1) % 2)]]

\* save_as_pcx: the bytes written for the planes zz.. of the line in b
RECURSIVE rle_planes(_, _, _)
rle_planes(b, i, zz) ==
  IF zz >= Shl(1, degas[i].d) THEN <<>>
  ELSE pcx_encode_row(raw_plane(b, i, zz), Shl(Shr(degas[i].w, 4), 1))
         \o rle_planes(b, i, zz + 1)

\* save_as_pcx: the file written for the picture b of format i
save_as_pcx(b, i) ==
  [head |-> [k \in 1 .. 34 |-> IF k = 1 THEN Shr(DEGAS_PC1, 8) ELSE b[k - 1]],
   pat |-> rle_planes(b, i, 0),
   reps |-> degas[i].h]

\* save_as_pix with one byte for each word of a line
save_as_pix_half(b, i) ==
  [head |-> [k \in 1 .. 34 |-> b[k - 1]],
   pat |-> [k \in 1 .. Shl(Shr(degas[i].w, 4), degas[i].d) |-> b[33 + k]],
   reps |-> degas[i].h]

\* save_as_pix: the file written for the picture b of format i
save_as_pix(b, i) ==
  [head |-> [k \in 1 .. 34 |-> b[k - 1]],
   pat |-> [k \in 1 .. Shl(Shr(degas[i].w, 4), degas[i].d + 1) |-> b[33 + k]],
   reps |-> degas[i].h]

\* main: one pass of the getopt_long loop
MainOption ==
  /\ pc = "args"
  /\ args # <<>>
  /\ args' = Tail(args)
  /\ CASE Head(args) = "z" ->
            IF opt_out = PXX \/ opt_out = PCX
            THEN opt_out' = PCX /\ UNCHANGED <<pc, msg, opt_col>>
            ELSE /\ msg' = "exclusive"
                 /\ pc' = "exit"
                 /\ UNCHANGED <<opt_out, opt_col>>
       [] Head(args) = "r" ->
            opt_out' = PIX /\ UNCHANGED <<pc, msg, opt_col>>
       [] Head(args) = "e" ->
            opt_col' = CQ_STE + CQ_LBR /\ UNCHANGED <<pc, msg, opt_out>>
  /\ UNCHANGED <<opath, itype, ofile, otype, ecode, warn, ste_detect, argv,
                 file,
                 fpos, bpp, raw, x,
                 ret, imgVars, png, lut, ncolors, rev, cur, unp, encVars,
                 rowVars>>
  /\ UNCHANGED <<colVars, rd, pathVars>>

\* main: the end of the options, set_color_mode(opt_col), ecode = E_INP
MainArgsDone ==
  /\ pc = "args"
  /\ args = <<>>
  /\ opt_col' = color_mode(opt_col)
  /\ ecode' = E_INP
  /\ pc' = "read"
  /\ UNCHANGED <<args, opt_out, opath, itype, ofile, otype, warn, ste_detect,
                 argv, decVars, imgVars, png, lut, ncolors, rev, cur, unp, encVars, rowVars>>
  /\ UNCHANGED <<colVars, rd, pathVars>>

\* main: read_img_file(ipath), then the branch on itype
ReadImg ==
  /\ pc = "read"
  /\ IF ~ mf_read_ok(file, 0, 8)
     THEN /\ pc' = "exit"
          /\ msg' = "read error"
          /\ UNCHANGED <<fpos, imgVars, itype, opt_out, ecode>>
     ELSE IF [k \in 1 .. 8 |-> FAt(file, k)] = PngSig
     THEN /\ itype' = PNG
          /\ ecode' = E_PNG
          /\ pc' = "from_png"
          /\ UNCHANGED <<fpos, msg, imgVars, opt_out>>
     ELSE \E m \in {mypix_from_file(file)} :
          /\ msg' = m.msg
          /\ fpos' = m.fpos
          /\ img' = m.img
          /\ IF m.img = "null"
             THEN /\ pc' = "exit"
                  /\ UNCHANGED <<id, y, z, bits, itype, opt_out, ecode>>
             ELSE /\ id' = m.id
                  /\ bits' = m.bits
                  /\ itype' = (IF degas[m.id].rle = 0 THEN PIX ELSE PCX)
                  /\ opt_out' = (IF opt_out = PXX THEN PNG ELSE opt_out)
                  /\ pc' = "loaded"
                  /\ UNCHANGED <<y, z, ecode>>
  /\ UNCHANGED <<args, opath, ofile, otype, warn, ste_detect, argv, file, bpp,
                 raw,
                 x, ret, png, opt_col, lut, ncolors, rev, cur, unp, encVars, rowVars>>
  /\ UNCHANGED <<colVars, rd, pathVars>>

\* mypix_from_png, the loops "Blit pixels", for a PNG whose lines are all
\* the same: the first line is written to bits, the cursor ends after the
\* last
PngBlitLines ==
  /\ pc = "blit"
  /\ png.sy = 0
  /\ \E lb \in {line_bytes(line_words(line_indices(0), id))} :
       bits' = [k \in (0 .. 33) \cup (cur .. cur + Len(lb) - 1) |->
                  IF k < 34 THEN bits[k] ELSE lb[k - cur + 1]]
  /\ cur' = cur + degas[id].h * 2 * tiles_per_line(id) * nbplans(id)
  /\ y' = degas[id].h
  /\ pc' = "converted"
  /\ UNCHANGED <<id, z, img, opt_col, png, lut, ncolors, rev, unp,
                 decVars, encVars, rowVars, mainVars>>
  /\ UNCHANGED <<colVars, rd, pathVars>>

\* main: mypix_from_png has returned 0
MainPngFailed ==
  /\ pc = "done"
  /\ pc' = "exit"
  /\ UNCHANGED <<encVars, rowVars, decVars, imgVars, pngVars, mainVars>>
  /\ UNCHANGED <<colVars, rd, pathVars>>

\* st_rgb = (st_lut[0]<<8) | st_lut[1], for the colour yy of the header
st_rgb(b, yy) == b[2 + 2 * yy] * 256 + b[3 + 2 * yy]

\* st_rgb & 0x888, as a truth value
has_888(w) == \E k \in {3, 7, 11} : Shr(w, k) % 2 = 1

\* save_png_as: ste_detect after the loop over the pix->c colours
ste_count(b, i) ==
  Cardinality({yy \in 0 .. degas[i].c - 1 : has_888(st_rgb(b, yy))})

\* main: ecode = E_OUT and save_img_as(cvt ? cvt : src, opath, opt_out); the
\* file is written or mf_open, mf_write or mf_close fails
SaveImg ==
  /\ pc \in {"converted", "loaded"}
  /\ \E type \in {IF opt_out = PXX
                  THEN (IF guess_type_from_path(opath) # PXX
                        THEN guess_type_from_path(opath) ELSE PIX)
                  ELSE opt_out} :
     \E io \in {"ok", "failed"} :
       /\ warn' = (IF guess_type_from_path(opath) \notin {PXX, type}
                   THEN "mismatched" ELSE warn)
       /\ IF type = PNG /\ io = "ok"
          THEN ste_detect' = ste_count(bits, id)
          ELSE IF type = PNG
          THEN ste_detect' \in {ste_detect, ste_count(bits, id)}
          ELSE UNCHANGED ste_detect
       /\ bits' = (IF type = PCX THEN [bits EXCEPT ![0] = Shr(DEGAS_PC1, 8)]
                   ELSE bits)
       /\ IF io = "failed"
          THEN /\ ecode' = E_OUT
               /\ msg' = "write error"
               /\ UNCHANGED <<ofile, otype>>
          ELSE /\ ecode' = E_OK
               /\ otype' = type
               /\ ofile' = (IF type = PNG THEN FileOf(PngSig)
                            ELSE IF type = PCX THEN save_as_pcx(bits, id)
                            ELSE save_as_pix(bits, id))
               /\ UNCHANGED msg
  /\ pc' = "exit"
  /\ UNCHANGED <<args, argv, opt_out, opath, itype, id, y, z, img, file, fpos,
                 bpp, raw, x, ret, pngVars, encVars, rowVars>>
  /\ UNCHANGED <<colVars, rd, pathVars>>

(***************************************************************************)
(* Specification SpecCol: set_color_mode for each mode, then a component   *)
(* of 8 bits taken to 4 bits by rgb_8to4, back to 8 bits by col_4to8 and   *)
(* to 4 bits again.                                                        *)
(***************************************************************************)
\* set_color_mode(opt_col)
SetColorMode ==
  /\ pc = "mode"
  /\ opt_col' = color_mode(opt_col)
  /\ pc' = "tables"
  /\ UNCHANGED <<colVars, png, lut, ncolors, rev, cur, unp, encVars, rowVars,
                 decVars, imgVars, mainVars>>
  /\ UNCHANGED <<rd, pathVars>>

\* rgb444(comp, comp, comp): the entry of rgb_8to4
Quantize ==
  /\ pc = "tables"
  /\ c4' = rgb444(opt_col, comp, comp, comp)
  /\ pc' = "quantized"
  /\ UNCHANGED <<comp, c8, back, pngVars, encVars, rowVars, decVars, imgVars,
                 mainVars>>
  /\ UNCHANGED <<rd, pathVars>>

\* save_png_as: lut[y].blue = col_4to8[15 & (st_rgb>>0)]
Expand ==
  /\ pc = "quantized"
  /\ c8' = col_4to8(opt_col, c4 % 16)
  /\ pc' = "expanded"
  /\ UNCHANGED <<comp, c4, back, pngVars, encVars, rowVars, decVars, imgVars,
                 mainVars>>
  /\ UNCHANGED <<rd, pathVars>>

\* get_rgb on a pixel of the colour written: rgb444(c8, c8, c8)
Requantize ==
  /\ pc = "expanded"
  /\ back' = rgb444(opt_col, c8, c8, c8)
  /\ pc' = "requantized"
  /\ UNCHANGED <<comp, c4, c8, pngVars, encVars, rowVars, decVars, imgVars,
                 mainVars>>
  /\ UNCHANGED <<rd, pathVars>>

InitCol ==
  /\ pc = "mode"
  /\ opt_col \in ColorModes
  /\ comp \in 0 .. 255
  /\ c4 = 0 /\ c8 = 0 /\ back = 0
  /\ png = NoPng
  /\ lut = <<>> /\ ncolors = 0 /\ rev = NoBytes /\ cur = 0 /\ unp = <<>>
  /\ IdleEnc /\ IdleRow /\ IdleDec /\ IdleImg /\ IdleMain
  /\ rd = {}
  /\ IdlePath

NextCol == SetColorMode \/ Quantize \/ Expand \/ Requantize

SpecCol == InitCol /\ [][NextCol]_vars

(***************************************************************************)
(* Specification SpecPath: create_output_path on the path of an input      *)
(* file, with and without --same-dir.  A path is a sequence of characters. *)
(***************************************************************************)
\* basename(path): what follows the last slash
basename(path) ==
  LET sl == {k \in 1 .. Len(path) : path[k] = "/"}
  IN  IF sl = {} THEN path
      ELSE SubSeq(path, (CHOOSE k \in sl : \A j \in sl : j <= k) + 1, Len(path))

\* the offset in s of its last dot, or -1: strrchr(s, '.') - s
dot_offset(s) ==
  LET dots == {k \in 1 .. Len(s) : s[k] = "."}
  IN  IF dots = {} THEN -1 ELSE (CHOOSE k \in dots : \A j \in dots : j <= k) - 1

\* create_output_path(ipath, ext): the size of the buffer of mf_strdup, the
\* path that strcpy(dot, ext) leaves in it and the number of bytes of the
\* buffer up to the final zero that strcpy writes
create_output_path(ip, ext, dir) ==
  LET l == Len(basename(ip))
      fl == IF dir = 0 THEN l ELSE Len(ip)
      buf == IF dir = 0 THEN basename(ip) ELSE ip
      d == dot_offset(basename(ip))
      dot == IF d <= 0 THEN fl ELSE fl - l + d
  IN  [size |-> fl + Len(ext), path |-> SubSeq(buf, 1, dot) \o ext,
       wend |-> dot + Len(ext) + 1]

\* native_extension(type, subtype), for some types
ExtSamples ==
  { <<".", "p", "n", "g">>, <<".", "p", "i", "1">>, <<".", "p", "c", "3">> }

\* the directories and the file names of the input paths
DirSamples == { <<>>, <<"d", "/">>, <<"d", ".", "x", "/">> }
NameSamples ==
  { n \in SeqsUpTo({"a", "."}, MaxName) :
      n # <<>> /\ \E k \in 1 .. Len(n) : n[k] # "." }

\* save_img_as without an output path: create_output_path(pix->path, ext).
\* A strcpy that goes past the buffer is undefined: the path is made all
\* the same, or the program is stopped.
CreateOutputPath ==
  /\ pc = "path"
  /\ \E ext \in ExtSamples :
     \E r \in {create_output_path(ipath, ext, opt_dir)} :
       /\ asize' = r.size
       /\ wend' = r.wend
       /\ \/ pc' = "path_made" /\ opath' = r.path
          \/ r.wend > r.size /\ pc' = "path_fault" /\ opath' = opath
  /\ UNCHANGED <<ipath, opt_dir, args, argv, opt_out, itype, ofile, otype,
                 ecode, warn, ste_detect, encVars, rowVars, decVars, imgVars,
                 pngVars, colVars, rd>>

InitPath ==
  /\ pc = "path"
  /\ \E dir \in DirSamples, n \in NameSamples : ipath = dir \o n
  /\ opt_dir \in {0, 1}
  /\ asize = 0 /\ wend = 0
  /\ rd = {}
  /\ IdleEnc /\ IdleRow /\ IdleDec /\ IdleImg /\ IdlePng /\ IdleMain /\ IdleCol

NextPath == CreateOutputPath

SpecPath == InitPath /\ [][NextPath]_vars

(***************************************************************************)
(* Specification SpecMain: the program on command lines of up to MaxArgs   *)
(* options, an input file and an output path or none.                      *)
(***************************************************************************)
OptSamples == {"z", "r", "e"}

PathSamples ==
  { <<>>, <<"o">>, <<"o", ".", "p", "n", "g">>, <<"o", ".", "p", "i", "1">>,
    <<"o", ".", "P", "C", "2">>, <<"o", ".", "p", "i", "4">> }

\* the first lines of the input pictures, as patterns of bytes
LineSamples == {<<0>>, <<85, 85, 0, 255, 255, 255>>, <<1, 2, 3>>}

\* the picture of format i, every line the pattern pat, as a buffer
PicOf(i, pat) ==
  AsBuffer(HeaderOf(degas[i].id, RampPal) \o Periodic(pat, bytes_per_line(i)))

\* the input files: a picture in each of the six formats, two cut short,
\* two of an unknown id, a header alone, one whose first opcode copies 128
\* bytes, an empty one
DegasFiles ==
  { IF degas[i].rle = 0 THEN save_as_pix(PicOf(i, pat), i)
    ELSE save_as_pcx(PicOf(i, pat), i) : i \in 0 .. 5, pat \in LineSamples }
  \cup { [save_as_pcx(PicOf(1, <<1, 2, 3>>), 1) EXCEPT !.reps = 199],
         [save_as_pix(PicOf(0, <<0>>), 0) EXCEPT !.head[2] = 3],
         [save_as_pix(PicOf(2, <<0>>), 2) EXCEPT !.head[1] = 1],
         [save_as_pix(PicOf(0, <<1, 2, 3>>), 0) EXCEPT !.reps = 199],
         FileOf(HeaderOf(DEGAS_PI3, RampPal)),
         [head |-> HeaderOf(DEGAS_PC1, RampPal) \o <<127, 0>>,
          pat |-> <<0>>, reps |-> 2000],
         FileOf(<<>>) }

\* the source PNGs, of vertical stripes
PngFiles ==
  { [w |-> dim[1], h |-> dim[2], d |-> f[1], c |-> f[2], t |-> f[3],
     colours |-> Colours(0, n), sx |-> 1, sy |-> 0] :
      dim \in {<<320, 200>>, <<640, 200>>, <<640, 400>>, <<320, 400>>},
      n \in {1, 2, 5},
      f \in {<<8, 3, PNG_COLOR_TYPE_RGB>>, <<16, 3, PNG_COLOR_TYPE_RGB>>} }

InitMain ==
  /\ pc = "args"
  /\ args \in {<<>>} \cup SeqsUpTo(OptSamples, MaxArgs)
  /\ argv = args
  /\ opath \in PathSamples
  /\ opt_out = PXX
  /\ opt_col = CQ_TBD
  /\ itype = PXX /\ otype = PXX
  /\ ofile = FileOf(<<>>)
  /\ ecode = E_ARG
  /\ warn = "none" /\ ste_detect = 0
  /\ \/ file \in DegasFiles /\ png = NoPng
     \/ file = FileOf(PngSig) /\ png \in PngFiles
  /\ fpos = 0 /\ bpp = 0 /\ raw = NoBytes /\ x = 0
  /\ ret = "none" /\ msg = "none"
  /\ lut = <<>> /\ ncolors = 0 /\ rev = NoBytes /\ cur = 0 /\ unp = <<>>
  /\ IdleEnc /\ IdleRow /\ IdleImg
  /\ IdleCol
  /\ rd = {}
  /\ IdlePath

NextMain ==
  \/ MainOption
  \/ MainArgsDone
  \/ ReadImg
  \/ PngPalette
  \/ PngBlitLines
  \/ MainPngFailed
  \/ SaveImg

SpecMain == InitMain /\ [][NextMain]_vars

(***************************************************************************)
(* Specification SpecTrip: rle_read, opcode by opcode, on the files that   *)
(* save_as_pcx writes for pictures whose lines are in turn the two lines   *)
(* of src.                                                                 *)
(***************************************************************************)
\* the pairs of line patterns of the pictures
TripSamples ==
  { <<<<0>>, <<1, 2, 3>>>>,
    <<<<85, 85, 0, 255, 255, 255>>, <<0>>>>,
    <<<<1, 2, 3>>, <<7, 7, 7, 7, 9>>>> }

\* save_as_pcx for the picture of format i whose lines are a, b, a, b, ...
save_as_pcx2(i, a, b) ==
  [head |-> [save_as_pcx(PicOf(i, a), i).head EXCEPT ![2] = degas[i].id % 256],
   pat |-> rle_planes(PicOf(i, a), i, 0) \o rle_planes(PicOf(i, b), i, 0),
   reps |-> degas[i].h \div 2]

InitTrip ==
  /\ pc = "rle_read"
  /\ id \in {1, 3, 5}
  /\ \E ab \in TripSamples :
       /\ src = Periodic(ab[1], bytes_per_line(id))
                  \o Periodic(ab[2], bytes_per_line(id))
       /\ file = save_as_pcx2(id, ab[1], ab[2])
  /\ fpos = 34
  /\ bpp = bytes_per_plan(id)
  /\ raw = NoBytes
  /\ x = 0 /\ y = 0 /\ z = 0
  /\ ret = "none" /\ msg = "none"
  /\ bits = AsBuffer(SubSeq(file.head, 1, 34))
  /\ img = "alloc"
  /\ IdleEnc /\ IdlePng /\ IdleMain
  /\ IdleCol
  /\ rd = {}
  /\ IdlePath

SpecTrip == InitTrip /\ [][NextDec]_vars

(***************************************************************************)
(* Claims.                                                                 *)
(***************************************************************************)
\* C1: for every row s of length 1..80, the decoder loop of rle_read run on
\* the bytes pcx_encode_row wrote for s, with budget len(s), never fails,
\* ends with raw[0..len-1] = s and has then consumed exactly the bytes
\* written.
C1_RoundTrip ==
  /\ pc \in {"decode", "decoded"} => ret # "err"
  /\ pc = "decoded" =>
       /\ ret = "ok"
       /\ x = Len(src)
       /\ raw = AsBuffer(src)
       /\ fpos = FLen(file)

\* a row of 80 bytes holding runs and literals has been encoded and decoded
C1_Witness ==
  /\ pc = "decoded"
  /\ Len(src) = RowMax
  /\ \E i, k \in 1 .. Len(src) - 1 : src[i] = src[i + 1] /\ src[k] # src[k + 1]

\* the opcodes of a stream of copy opcodes: the lengths n, or <<-1>> when
\* the stream does not parse as copy opcodes with payload s
RECURSIVE CopyLengths(_, _)
CopyLengths(out, s) ==
  IF out = <<>> THEN <<>>
  ELSE LET n == out[1] + 1
       IN  IF out[1] < 128 /\ Len(out) >= 1 + n /\ Len(s) >= n
              /\ SubSeq(out, 2, 1 + n) = SubSeq(s, 1, n)
           THEN LET r == CopyLengths(SubSeq(out, 2 + n, Len(out)),
                                     SubSeq(s, n + 1, Len(s)))
                IN  IF r = <<-1>> THEN r ELSE <<n>> \o r
           ELSE <<-1>>

\* the opcodes of a stream of fill opcodes of value v: the lengths n, or
\* <<-1>> when the stream does not parse as such
RECURSIVE FillLengths(_, _)
FillLengths(out, v) ==
  IF out = <<>> THEN <<>>
  ELSE IF Len(out) >= 2 /\ out[1] >= 128 /\ out[1] <= 255 /\ out[2] = v
       THEN LET r == FillLengths(SubSeq(out, 3, Len(out)), v)
            IN  IF r = <<-1>> THEN r ELSE <<257 - out[1]>> \o r
       ELSE <<-1>>

RECURSIVE SumTo(_, _)
SumTo(ns, k) == IF k = 0 THEN 0 ELSE ns[k] + SumTo(ns, k - 1)

\* C2: every opcode of enc_copy has a control byte n-1 < 128 with n in
\* 1..128 and the chunks carry the l bytes in order; every opcode of
\* enc_fill, for l >= 2, has a control byte 257-n >= 128 with n in 2..129,
\* the chunks sum to l, no chunk leaves 1 byte to encode (130 is split
\* 128 + 2) and l is 0 when the loop is left.
C2_OpcodesLegal ==
  /\ pc = "copied" =>
       LET ns == CopyLengths(eOut, eS)
       IN  /\ ns # <<-1>>
           /\ \A k \in 1 .. Len(ns) : ns[k] \in 1 .. 128
           /\ SumTo(ns, Len(ns)) = eL
  /\ pc = "filled" =>
       LET ns == FillLengths(eOut, eV)
       IN  /\ ns # <<-1>>
           /\ \A k \in 1 .. Len(ns) : ns[k] \in 2 .. 129
           /\ SumTo(ns, Len(ns)) = eL
           /\ \A k \in 0 .. Len(ns) : eL - SumTo(ns, k) # 1
           /\ eL = 130 => ns = <<128, 2>>
           /\ eRest = 0

\* enc_fill has encoded a run of 130 bytes
C2_Witness == pc = "filled" /\ eL = 130 /\ Len(eOut) = 4

\* C3: for every row of length len in 1..80, pcx_encode_row writes at most
\* 2*len bytes and at most the 128 bytes of the scratch buffer rle[].
C3_EncodedSize ==
  pc \in {"decode", "decoded"} =>
    /\ Len(file.head) <= 2 * Len(src)
    /\ Len(file.head) <= RleMax

\* a row of 80 bytes that costs more than 100 bytes has been encoded, and
\* so has a row whose encoding is exactly twice its length
C3_Witness ==
  /\ pc = "decode"
  /\ fpos = 0
  /\ Len(src) = RowMax
  /\ Len(file.head) > 100

\* the length of the opcode whose control byte is c
OpLength(c) == IF c >= 128 THEN 257 - c ELSE c + 1

\* C4: in rle_read no byte is ever written at or beyond offset
\* bytes_per_plan of raw[] and the position never passes bytes_per_plan; an
\* opcode whose length would carry the position past bytes_per_plan makes
\* rle_read return -1 without writing, and the image is freed; an opcode
\* that fits (and whose bytes the file holds) is decoded; and the row-plane
\* is left only with the position equal to bytes_per_plan.
C4_BudgetChecked ==
  /\ [](/\ \A i \in DOMAIN raw : i < bpp
        /\ x <= bpp
        /\ ret = "err" => img = "null" /\ pc = "done")
  /\ [][ /\ (pc = "rle_read" /\ x < bpp /\ mf_read_ok(file, fpos, 2)) =>
              LET c == FAt(file, fpos + 1)
                  n == OpLength(c)
                  more == IF c >= 128 THEN 0 ELSE n - 1
              IN  IF x + n > bpp
                  THEN /\ ret' = "err"
                       /\ msg' \in {"rle-fill overflow", "rle-copy overflow"}
                       /\ img' = "null"
                       /\ raw' = raw
                  ELSE mf_read_ok(file, fpos + 2, more) =>
                         /\ ret' = "none"
                         /\ x' = x + n
                         /\ fpos' = fpos + 2 + more
         /\ (pc = "rle_read" /\ (z' # z \/ y' # y)) => x = bpp
       ]_vars

\* rle_read has met an opcode that overflows the row-plane after it had
\* decoded a part of it
C4_Witness ==
  /\ pc = "done"
  /\ ret = "err"
  /\ msg = "rle-copy overflow"
  /\ x > 0
  /\ img = "null"


(***************************************************************************)
(* Claims about the palette of a converted PNG (SpecPal).                  *)
(***************************************************************************)
\* mypix_from_png has returned, with an image or without
PngReturned == pc \in {"converted", "done"}

\* mypix_from_png has returned an image
PngConverted == pc = "converted" /\ img = "alloc"

\* the source PNG has one of the nine pixel formats that are read: gray of
\* 1, 2, 4 or 8 bits, a palette of 2, 4 or 8 bits, RGB or RGBA of 8 bits
NineFormats ==
  \/ png.t = 0 /\ png.c = 1 /\ png.d \in {1, 2, 4, 8}
  \/ png.t = 3 /\ png.c = 1 /\ png.d \in {2, 4, 8}
  \/ png.t = 2 /\ png.c = 3 /\ png.d = 8
  \/ png.t = 6 /\ png.c = 4 /\ png.d = 8

\* the number of distinct RGB444 colours of the source PNG
SourceColours == Cardinality(counted(opt_col, png))

\* palette word k (0..15) of the header in pix->bits
PaletteWord(k) == bits[2 + 2 * k] * 256 + bits[3 + 2 * k]

\* the number of colours a format takes: two to the number of its bitplanes
Capacity(i) ==
  IF degas[i].id = DEGAS_PI1 THEN 16
  ELSE IF degas[i].id = DEGAS_PI2 THEN 4 ELSE 2

\* the palette size of the format descriptors
DescriptorColours(i) ==
  IF degas[i].id = DEGAS_PI1 THEN 16
  ELSE IF degas[i].id = DEGAS_PI2 THEN 4 ELSE 0

\* the outcome of a conversion for a source of capacity or capacity + 1
\* colours, for the capacity cap of the target format
CapacityRule(cap) ==
  /\ SourceColours = cap =>
       /\ PngConverted
       /\ ncolors = cap
       /\ msg = "none"
  /\ SourceColours = cap + 1 =>
       /\ pc = "done"
       /\ img = "null"
       /\ msg = "too many colors"

\* C7 as stated: the capacity of a format is the palette size of its
\* descriptor (16 for PI1, 4 for PI2, 0 for PI3).  A source (of one of the
\* nine pixel formats) of exactly capacity colours converts and gives that many entries; a source of
\* capacity + 1 colours fails with the too-many-colours error, no image.
C7_DescriptorCapacity ==
  (PngReturned /\ find_id(png.w, png.h) # 6 /\ NineFormats) =>
     CapacityRule(DescriptorColours(find_id(png.w, png.h)))

\* C7: the capacity of a format is two to the number of its bitplanes (16
\* for PI1, 4 for PI2, 2 for PI3).  A source (of one of the nine pixel
\* formats) of exactly capacity colours
\* converts and gives that many accepted colours; a source of capacity + 1
\* colours fails with the too-many-colours error and no image is returned.
C7_PlaneCapacity ==
  (PngReturned /\ find_id(png.w, png.h) # 6 /\ NineFormats) =>
     CapacityRule(Capacity(find_id(png.w, png.h)))

\* a 640x400 source of three colours is refused, and one of two is taken
C7_Witness ==
  /\ pc = "done"
  /\ NineFormats
  /\ png.w = 640 /\ png.h = 400
  /\ SourceColours = 3
  /\ msg = "too many colors"
  /\ img = "null"

\* a component of an RGB444 value in the standard bit order
StdOrder(n) == (n % 8) * 2 + n \div 8

\* the luminance key 2*R + 4*G + B on the reordered components
LumiKey(v) ==
  2 * StdOrder(v \div 256) + 4 * StdOrder((v \div 16) % 16) + StdOrder(v % 16)

\* C8: after a conversion the accepted colours are exactly the colours of
\* the source, colour lut[k] has index k, the indices 0..n-1 are in
\* non-decreasing order of the luminance key, and index 0 has the least
\* key of all the colours used; this for every colour mode.
C8_LumiOrder ==
  (pc \in {"blit", "converted"} /\ img = "alloc") =>
     /\ ncolors = SourceColours
     /\ {lut[k] : k \in 1 .. ncolors} = counted(opt_col, png)
     /\ DOMAIN rev = counted(opt_col, png)
     /\ \A k \in 1 .. ncolors : rev[lut[k]] = k - 1
     /\ \A k \in 1 .. ncolors - 1 : LumiKey(lut[k]) <= LumiKey(lut[k + 1])
     /\ \A c \in counted(opt_col, png) : LumiKey(lut[1]) <= LumiKey(c)

\* sixteen colours in an STe mode, two of them of the same key, and the
\* order by key is not the order by value
C8_Witness ==
  /\ PngConverted
  /\ ncolors = 16
  /\ opt_col = CQ_STE + CQ_000
  /\ \E k \in 1 .. 15 : LumiKey(lut[k]) = LumiKey(lut[k + 1])
  /\ \E k \in 1 .. 15 : lut[k] > lut[k + 1]

\* C9 as stated: every palette word of the header that does not hold one
\* of the n accepted colours is zero, but word 0 is 0x0FFF when n = 0.
C9_UnusedZero ==
  PngConverted =>
     \A k \in ncolors .. 15 :
        PaletteWord(k) = (IF ncolors = 0 /\ k = 0 THEN 4095 ELSE 0)

\* C9: with c the palette size of the descriptor (16, 4, 0) and n >= 1 the
\* number of accepted colours: word k holds colour k for k < n and k < c,
\* holds 0x00F0 for n <= k < c, and is zero for k >= c, but word 0 is
\* 0x0FFF when c = 0, whatever n.
C9_PaletteWords ==
  PngConverted =>
     /\ ncolors >= 1
     /\ ncolors <= Capacity(id)
     /\ \A k \in 0 .. 15 :
          PaletteWord(k) =
            (IF k < DescriptorColours(id)
             THEN (IF k < ncolors THEN lut[k + 1] ELSE 240)
             ELSE IF DescriptorColours(id) = 0 /\ k = 0 THEN 4095
             ELSE 0)

\* a 320x200 picture of three colours: word 3 of its palette is 0x00F0
C9_Witness ==
  /\ PngConverted
  /\ degas[id].id = DEGAS_PI1
  /\ ncolors = 3
  /\ PaletteWord(3) = 240
  /\ PaletteWord(15) = 240


(***************************************************************************)
(* Claims about the pixel data of a converted PNG (SpecPack).              *)
(***************************************************************************)
\* the palette index of pixel (xx, yy) of the source
IndexOf(xx, yy) == rev[get_pixel(opt_col, png, xx, yy)]

\* the number of bitplanes of a format
Planes(i) ==
  IF degas[i].id % 32768 = DEGAS_PI1 THEN 4
  ELSE IF degas[i].id % 32768 = DEGAS_PI2 THEN 2 ELSE 1

\* the number of bytes of a line of pixel data
LineSize(i) == (degas[i].w \div 16) * Planes(i) * 2

\* line y - 1 has been written and read back
LineDone == pc = "blit" /\ y > 0 /\ img = "alloc"

\* C5: for the three geometries, get_st_pixel on the bytes the packing loop
\* wrote gives at every pixel the index that was packed, an index below
\* the number of colours; packing the indices read back gives the same
\* bytes again, and the pixel data is 32000 bytes in all.
C5_UnpackPack ==
  /\ LineDone =>
       /\ \A xx \in 0 .. png.w - 1 :
            /\ unp[xx] = IndexOf(xx, y - 1)
            /\ unp[xx] < ncolors
            /\ unp[xx] < Pow2(Planes(id))
       /\ \E lb \in {line_bytes(line_words(unp, id))} :
            /\ Len(lb) = LineSize(id)
            /\ \A k \in 1 .. Len(lb) : bits[cur - Len(lb) + k - 1] = lb[k]
  /\ pc = "converted" => (y = png.h /\ cur = 34 + 32000)

\* the last line of a 320x200 picture of 16 colours has been read back,
\* and it holds the index 15
C5_Witness ==
  /\ LineDone
  /\ y = 200
  /\ ncolors = 16
  /\ \E xx \in 0 .. 15 : unp[xx] = 15

\* C6: the lines follow each other from offset 34 on; in a line the tiles
\* of 16 pixels go left to right, each tile one big-endian word for each
\* plane, the words of its planes together; bit 15-k of the word of plane
\* zz of tile t is bit zz of the index of pixel 16*t + k.
C6_Layout ==
  (pc = "unpack" /\ img = "alloc") =>
     /\ cur = 34 + y * LineSize(id)
     /\ DOMAIN bits = (0 .. 33) \cup (cur - LineSize(id) .. cur - 1)
     /\ \E idx \in {[xx \in 0 .. png.w - 1 |-> IndexOf(xx, y - 1)]} :
        \A t \in 0 .. (png.w \div 16) - 1 : \A zz \in 0 .. Planes(id) - 1 :
          \E off \in {34 + (y - 1) * LineSize(id) + t * 2 * Planes(id) + 2 * zz} :
          \E word \in {bits[off] * 256 + bits[off + 1]} :
             \A k \in 0 .. 15 :
                (word \div (2 ^ (15 - k))) % 2
                   = (idx[16 * t + k] \div (2 ^ zz)) % 2

\* line 7 of a 640x200 picture of four colours has been written, and the
\* two words of its first tile differ
C6_Witness ==
  /\ pc = "unpack"
  /\ degas[id].id = DEGAS_PI2
  /\ y = 8
  /\ ncolors = 4
  /\ bits[cur - 160] * 256 + bits[cur - 159]
       # bits[cur - 158] * 256 + bits[cur - 157]


(***************************************************************************)
(* Claims about the program as a whole (SpecMain).                         *)
(***************************************************************************)
\* a Degas file has been written
DegasWritten == pc = "exit" /\ ecode = E_OK /\ otype \in {PIX, PCX}

\* the word in the first two bytes of the file written
WrittenId == ofile.head[1] * 256 + ofile.head[2]

\* the number of the resolution of the picture: 0, 1 or 2
Resolution == degas[id].id % 32768

\* C10: for every input (PNG, PI1..PI3, PC1..PC3) and every Degas output,
\* the first two bytes of the file written are the id of the format
\* written: 0x0000, 0x0001, 0x0002 when the pixel data is the 32000 raw
\* bytes of save_as_pix, 0x8000, 0x8001, 0x8002 when it is the RLE stream
\* of save_as_pcx.
C10_WrittenId ==
  DegasWritten =>
     /\ otype = PIX => (WrittenId = Resolution /\ FLen(ofile) = 32034)
     /\ otype = PCX => WrittenId = 32768 + Resolution

\* a PC1 picture written by save_as_pix: 32034 bytes that start with 0x8000
C10_RawWithRleId ==
  /\ DegasWritten
  /\ itype = PCX
  /\ otype = PIX
  /\ FLen(ofile) = 32034
  /\ WrittenId = DEGAS_PC1


\* C11: the picture in memory is a header of 34 bytes and 32000 bytes of
\* pixel data: in mypix_from_png the cursor is at 34 once the palette is
\* written and at 32034 once the pixels are, for the three geometries, and
\* a file written by save_as_pix is of 34 + 32000 bytes.
C11_Sizes ==
  /\ pc = "blit" => (cur = 34 /\ DOMAIN bits = 0 .. 33)
  /\ pc = "converted" =>
       /\ cur = 32034
       /\ (png.w \div 16) * Planes(id) * 2 * png.h = 32000
  /\ (pc = "exit" /\ ecode = E_OK /\ otype = PIX) =>
       /\ Len(ofile.head) = 34
       /\ Len(ofile.pat) * ofile.reps = 32000
       /\ FLen(ofile) = 32034

\* a 640x400 PNG has been converted and written as a PI3 file
C11_Witness ==
  /\ pc = "exit"
  /\ ecode = E_OK
  /\ itype = PNG
  /\ otype = PIX
  /\ degas[id].id = DEGAS_PI3
  /\ cur = 32034
  /\ FLen(ofile) = 32034


(***************************************************************************)
(* Claims about a compressed file read back (SpecTrip).                    *)
(***************************************************************************)
\* the raw file of the picture whose lines are in turn the two of src
RawOutput ==
  [head |-> [k \in 1 .. 34 |-> bits[k - 1]], pat |-> src,
   reps |-> degas[id].h \div 2]

\* C12: for the three geometries, rle_read on the stream save_as_pcx wrote
\* for a picture never fails and gives back, line after line, the pixel
\* bytes the raw file of the picture holds: 32000 bytes in all, the
\* stream read to its end.
C12_ReadBack ==
  /\ pc # "done"
  /\ msg = "none"
  /\ (x = 0 /\ z = 0 /\ y > 0) =>
       \A k \in 34 + (y - 1) * LineSize(id) .. 34 + y * LineSize(id) - 1 :
          bits[k] = FAt(RawOutput, k + 1)
  /\ pc = "loaded" =>
       /\ y = degas[id].h
       /\ y * LineSize(id) = 32000
       /\ FLen(RawOutput) = 32034
       /\ fpos = FLen(file)
       /\ ret = "ok"

\* a PC1 file has been read to its end, the last line not a plain one
C12_Witness ==
  /\ pc = "loaded"
  /\ degas[id].id = DEGAS_PC1
  /\ y = 200
  /\ bits[34 + 199 * 160] # bits[34 + 199 * 160 + 4]
  /\ fpos = FLen(file)


(***************************************************************************)
(* More claims about the program as a whole (SpecMain).                    *)
(***************************************************************************)
\* the least length of a compressed file of each resolution
MinSize(r) == IF r = 0 THEN 1634 ELSE IF r = 1 THEN 839 ELSE 854

\* C13: every compressed file the program writes is at least as long as
\* the minimum size of its format (PC1 1634, PC2 839, PC3 854), whatever
\* the picture, so that mypix_from_file does not refuse it as too short.
C13_MinSize ==
  (pc = "exit" /\ ecode = E_OK /\ otype = PCX) =>
     /\ FLen(ofile) >= MinSize(Resolution)
     /\ mypix_from_file(ofile).msg # "too short"

\* a PC2 file of 834 bytes has been written: mypix_from_file refuses it
C13_TooShort ==
  /\ pc = "exit"
  /\ ecode = E_OK
  /\ otype = PCX
  /\ Resolution = 1
  /\ FLen(ofile) = 834
  /\ mypix_from_file(ofile).msg = "too short"


\* the input is not a PNG and read_img_file has returned
DegasRead ==
  /\ FLen(file) >= 34
  /\ file.head[1] # PngSig[1]
  /\ pc \notin {"args", "read"}
  /\ ecode # E_ARG

\* the word in the first two bytes of the input file
InputId == file.head[1] * 256 + file.head[2]

\* the ids of the six formats, and the least file length of each
KnownIds == {0, 1, 2, 32768, 32769, 32770}
LeastLength(w) == IF w < 32768 THEN 32034 ELSE MinSize(w - 32768)

\* C14: mypix_from_file gives an image only if the first two bytes of the
\* file are one of the six ids and the file is at least as long as the
\* minimum size of that format; with another id or a shorter file it gives
\* no image and has read nothing after the 34 bytes of the header.
C14_Accepts ==
  DegasRead =>
     /\ img = "alloc" =>
          /\ InputId \in KnownIds
          /\ FLen(file) >= LeastLength(InputId)
          /\ degas[id].id = InputId
     /\ (InputId \notin KnownIds \/ FLen(file) < LeastLength(InputId)) =>
          /\ img = "null"
          /\ fpos <= 34
          /\ bits = NoBytes
          /\ pc = "exit"
          /\ ecode = E_INP
          /\ otype = PXX

\* a PC2 file of 834 bytes has been refused as too short, nothing read
\* after its header
C14_Witness ==
  /\ DegasRead
  /\ InputId = 32769
  /\ FLen(file) = 834
  /\ msg = "too short"
  /\ img = "null"
  /\ fpos = 34


(***************************************************************************)
(* More claims about the conversion of a PNG (SpecPal).                    *)
(***************************************************************************)
\* the format of the dimensions w x h: its id and its number of planes
TargetOf(w, h) ==
  IF w = 320 /\ h = 200 THEN <<DEGAS_PI1, 4>>
  ELSE IF w = 640 /\ h = 200 THEN <<DEGAS_PI2, 2>>
  ELSE IF w = 640 /\ h = 400 THEN <<DEGAS_PI3, 1>>
  ELSE <<>>

\* C15: mypix_from_png takes the format from the dimensions alone: 320x200
\* gives PI1 with 4 planes, 640x200 PI2 with 2, 640x400 PI3 with 1, for
\* every number of colours and every colour mode; for other dimensions it
\* fails with the incompatible-dimension error and gives no image.
C15_FormatOfDimensions ==
  pc # "from_png" =>
     IF TargetOf(png.w, png.h) # <<>>
     THEN /\ degas[id].id = TargetOf(png.w, png.h)[1]
          /\ nbplans(id) = TargetOf(png.w, png.h)[2]
          /\ degas[id].rle = 0
          /\ msg # "incompatible image dimension"
     ELSE /\ pc = "done"
          /\ msg = "incompatible image dimension"
          /\ img = "null"
          /\ bits = NoBytes

\* a PNG of 320x400 has been refused
C15_Witness ==
  /\ pc = "done"
  /\ png.w = 320 /\ png.h = 400
  /\ msg = "incompatible image dimension"
  /\ img = "null"


(***************************************************************************)
(* Claims about a whole run (SpecMain).                                    *)
(***************************************************************************)
\* the stages of a run, in their order
StageRank(p) ==
  CASE p = "args" -> 0
    [] p = "read" -> 1
    [] p = "from_png" -> 2
    [] p = "blit" -> 3
    [] p \in {"done", "converted", "loaded"} -> 4
    [] p = "exit" -> 5

\* the errors of the stage that reads the input
InputErrors ==
  {"read error", "not a png", "too short", "missing", "rle-copy overflow",
   "rle-fill overflow", "rle-overflow"}

\* the errors of the conversion of a PNG
PngErrors ==
  {"incompatible image dimension", "incompatible image format",
   "too many colors"}

\* the input is a PNG that cannot be converted
BadPng ==
  /\ png.w # 0
  /\ \/ TargetOf(png.w, png.h) = <<>>
     \/ ~ NineFormats
     \/ SourceColours > 2 ^ TargetOf(png.w, png.h)[2]

\* the input is a Degas file of an unknown id or too short for its id
BadDegas ==
  /\ png.w = 0
  /\ \/ FLen(file) < 34
     \/ InputId \notin KnownIds
     \/ FLen(file) < LeastLength(InputId)

\* save_img_as has not been called: nothing written, no warning, and the
\* palette not looked at
NothingSaved ==
  /\ otype = PXX
  /\ ofile = FileOf(<<>>)
  /\ warn = "none"
  /\ ste_detect = 0

\* a run that has ended on a failure of the stage of exit code e
FailedAt(e) == ecode = e /\ ecode # 0 /\ NothingSaved

\* C16, the end of a run: a failure ends the run with the exit code of its
\* stage (E_ARG, E_INP, E_PNG), not zero, and without save_img_as
C16_FailureEnds ==
  pc = "exit" =>
     /\ msg = "exclusive" => FailedAt(E_ARG)
     /\ (msg \in InputErrors \/ (BadDegas /\ msg # "exclusive"))
          => FailedAt(E_INP) /\ img # "alloc"
     /\ (msg \in PngErrors \/ (BadPng /\ msg # "exclusive"))
          => FailedAt(E_PNG) /\ img = "null" /\ msg \in PngErrors
     /\ ecode = E_OK => msg = "none" /\ img = "alloc" /\ otype # PXX

\* C16, the steps of a run: the stage never goes back, and the output is
\* touched by the step from a loaded or converted image alone
C16_StepForward ==
  /\ \/ StageRank(pc') > StageRank(pc)
     \/ pc = "args" /\ pc' = "args"
  /\ (<<ofile, otype, warn, ste_detect>>' # <<ofile, otype, warn, ste_detect>>
      \/ ecode' \in {E_OK, E_OUT})
       => /\ pc \in {"loaded", "converted"}
          /\ img = "alloc"
          /\ msg = "none"
          /\ pc' = "exit"

\* C16: the run is a sequence of stages (arguments, colour mode, input
\* read, PNG converted, output saved) without a step back; a failure (bad
\* magic, short file, RLE overflow, unsupported dimensions, a pixel format
\* not among the nine, too many colours) ends the run with the non-zero
\* exit code of the failed stage, save_img_as is not called and no output
\* file is opened.
C16_LinearStages == [] C16_FailureEnds /\ [][C16_StepForward]_vars

\* a 320x200 PNG of 16 bits has been refused with E_PNG, nothing written
C16_Witness ==
  /\ pc = "exit"
  /\ png.w = 320 /\ png.h = 200 /\ png.d = 16
  /\ msg = "incompatible image format"
  /\ FailedAt(E_PNG)


(***************************************************************************)
(* Claims about the colour tables (SpecCol).                               *)
(***************************************************************************)
\* the mode is one of the three of 4 bits (STe), of 3 bits (STf)
SteMode == opt_col % 4 = 2
StfMode == opt_col % 4 = 1

\* the fill policy of the mode: 1 zero-fill, 2 replicated, 3 full-range
FillPolicy == opt_col \div 4

\* the bits of a nibble in the order of the STe: bit 0 moved to bit 3
Reorder(n) == n \div 2 + 8 * (n % 2)

\* the three components of an RGB444 word
Components(v) == <<v \div 256, (v \div 16) % 16, v % 16>>

\* C17: rgb_8to4 maps a component of 8 bits to its high nibble, and only
\* in a mode of 4 bits (STe) passes that nibble through std_to_ste; in the
\* three modes of 3 bits (STf) the nibble is not reordered.
C17_ReorderInSteOnly ==
  pc \in {"quantized", "expanded"} =>
     \A k \in 1 .. 3 :
        Components(c4)[k] = (IF SteMode THEN Reorder(comp \div 16)
                             ELSE comp \div 16)

\* the component $10 has been quantized in the mode 3z: the nibble is 8
C17_Witness ==
  /\ pc = "quantized"
  /\ opt_col = 5
  /\ comp = 16
  /\ c4 = 2184

\* the value the usage text and the description give for a nibble of a
\* mode, where they give one
Documented(n) ==
  CASE n = 3 /\ FillPolicy = 1 -> {96}
    [] n = 3 /\ FillPolicy = 2 /\ StfMode -> {108}
    [] n = 3 /\ FillPolicy = 2 /\ SteMode -> {102}
    [] n = 3 /\ FillPolicy = 3 /\ StfMode -> {109}
    [] n = 3 /\ FillPolicy = 3 /\ SteMode -> {102}
    [] n = 7 /\ FillPolicy = 3 /\ StfMode -> {255}
    [] n = 7 /\ FillPolicy = 1 /\ StfMode -> {224}
    [] OTHER -> 0 .. 255

\* C18: after set_color_mode(m), col_4to8 gives the documented value of
\* the mode: $3 gives $60 in both zero-fill modes, $6C in 3-bit replicated,
\* $66 in 4-bit replicated, $6D in 3-bit full-range, $66 in 4-bit
\* full-range; 7 gives $FF in 3-bit full-range and $E0 in 3-bit zero-fill.
C18_Documented ==
  pc = "expanded" => c8 \in Documented(c4 % 16)

\* the nibble 3 has been expanded in the mode 3r: the value is $6D
C18_Witness ==
  /\ pc = "expanded"
  /\ opt_col = 9
  /\ c4 % 16 = 3
  /\ c8 = 109


(***************************************************************************)
(* Claims about the output (SpecMain).                                     *)
(***************************************************************************)
\* a palette word with a bit of the mask 0x888
SteWord(w) == (w \div 8) % 2 = 1 \/ (w \div 128) % 2 = 1 \/ (w \div 2048) % 2 = 1

\* the palette of the picture read holds a colour of 4 bits
StePalette == \E k \in 0 .. 15 : SteWord(PaletteWord(k))

\* a Degas picture has been read and its conversion to PNG has ended
\* without an error of the output file
DegasToPng ==
  /\ pc = "exit"
  /\ itype \in {PIX, PCX}
  /\ opt_out = PNG
  /\ msg # "write error"

\* C19: when the palette of the source Degas picture holds an STe colour
\* (a word with a bit of 0x888) and the colour mode is one of 3 bits (STf),
\* the conversion reports a warning and still completes.
C19_SteWarning ==
  (DegasToPng /\ StePalette /\ StfMode) =>
     /\ warn # "none"
     /\ ecode = E_OK
     /\ otype = PNG

\* a PI1 picture with eight STe colours has been written as a PNG in the
\* mode 3r: ste_detect is 8, and nothing has been reported
C19_Witness ==
  /\ DegasToPng /\ StePalette /\ StfMode
  /\ degas[id].id = DEGAS_PI1
  /\ ste_detect = 8
  /\ ecode = E_OK
  /\ otype = PNG
  /\ warn = "none"


\* the last three characters of the output path, in lower case, when it
\* ends with a dot and three characters
Extension ==
  LET n == Len(opath)
  IN  IF n >= 4 /\ opath[n - 3] = "."
      THEN <<tolower(opath[n - 2]), tolower(opath[n - 1]), tolower(opath[n])>>
      ELSE <<>>

\* the type the output path suggests: .png, .pi1 .. .pi3, .pc1 .. .pc3
Suggested ==
  IF Extension = <<"p", "n", "g">> THEN PNG
  ELSE IF Extension # <<>> /\ Extension[1] = "p" /\ Extension[2] = "i"
          /\ Extension[3] \in {"1", "2", "3"} THEN PIX
  ELSE IF Extension # <<>> /\ Extension[1] = "p" /\ Extension[2] = "c"
          /\ Extension[3] \in {"1", "2", "3"} THEN PCX
  ELSE PXX

\* --pix or --pcx has been given
Forced == opt_out \in {PIX, PCX}

\* a file has been written
Written == pc = "exit" /\ ecode = E_OK

\* C20, with --pix or --pcx: the file is a raw respectively an RLE Degas
\* file whatever the input and the extension, with a warning on mismatch
C20_ForcedType ==
  (Written /\ Forced) =>
     /\ otype = opt_out
     /\ ofile = (IF otype = PIX THEN save_as_pix(bits, id)
                 ELSE save_as_pcx(bits, id))
     /\ (Suggested \notin {PXX, otype}) <=> warn = "mismatched"

\* C20: without --pix and --pcx the type of the file written is the one the
\* extension of the output path suggests (.png, .pi?, .pc?) if it suggests
\* one, otherwise PI? for a PNG input and PNG for a Degas input; with --pix
\* or --pcx the file is a raw respectively an RLE Degas file whatever the
\* input and the extension, with a warning on mismatch.
C20_OutputType ==
  /\ C20_ForcedType
  /\ (Written /\ ~ Forced) =>
        otype = (IF Suggested # PXX THEN Suggested
                 ELSE IF itype = PNG THEN PIX ELSE PNG)

\* a PI1 picture has been read and the output path o.pi1 given without
\* --pix or --pcx: a PNG has been written, with the warning of a mismatch
C20_Witness ==
  /\ Written /\ ~ Forced
  /\ itype = PIX
  /\ opath = <<"o", ".", "p", "i", "1">>
  /\ otype = PNG
  /\ ofile = FileOf(PngSig)
  /\ warn = "mismatched"


\* the command line holds -z (--pcx) and -r (--pix)
BothGiven ==
  /\ \E k \in 1 .. Len(argv) : argv[k] = "z"
  /\ \E k \in 1 .. Len(argv) : argv[k] = "r"

\* C21: -z/--pcx and -r/--pix are exclusive: for every command line that
\* holds both, in either order, the parsing of the options reports the
\* error and the program exits with the code of an argument error without
\* reading an input file.
C21_Exclusive ==
  (BothGiven /\ pc # "args") =>
     /\ pc = "exit"
     /\ msg = "exclusive"
     /\ ecode = E_ARG
     /\ fpos = 0 /\ img = "none" /\ itype = PXX
     /\ NothingSaved

\* the command line -z -r has been taken: a PI? file has been written
C21_Witness ==
  /\ pc = "exit"
  /\ argv = <<"z", "r">>
  /\ opt_out = PIX
  /\ ecode = E_OK
  /\ otype = PIX


(***************************************************************************)
(* More claims about the pixels of a converted PNG (SpecPack).             *)
(***************************************************************************)
\* a PNG has been converted, or is being, to PI1 or PI2
ToPi1OrPi2 ==
  /\ pc \in {"blit", "unpack", "converted"}
  /\ img = "alloc"
  /\ degas[id].id \in {DEGAS_PI1, DEGAS_PI2}

\* the RGB444 value sampled at the pixel (xx, yy) of the source
Sampled(xx, yy) == get_pixel(opt_col, png, xx, yy)

\* C22: after a conversion to PI1 or PI2 the reverse map is a bijection
\* between the n distinct colours sampled and 0..n-1; the index of every
\* pixel is below n, and the palette word of the header at that index is
\* the RGB444 value sampled at the pixel.
C22_ReverseMap ==
  ToPi1OrPi2 =>
     /\ DOMAIN rev = counted(opt_col, png)
     /\ Cardinality(DOMAIN rev) = ncolors
     /\ {rev[c] : c \in DOMAIN rev} = 0 .. ncolors - 1
     /\ \A c \in DOMAIN rev : PaletteWord(rev[c]) = c
     /\ (pc = "blit" /\ y > 0) =>
          \A xx \in 0 .. png.w - 1 :
             /\ unp[xx] < ncolors
             /\ PaletteWord(unp[xx]) = Sampled(xx, y - 1)

\* line 100 of a 320x200 picture of 16 colours has been read back, its
\* pixels of more than one colour
C22_Witness ==
  /\ ToPi1OrPi2
  /\ pc = "blit" /\ y = 100
  /\ degas[id].id = DEGAS_PI1
  /\ ncolors = 16
  /\ PaletteWord(unp[0]) = Sampled(0, 99)
  /\ unp[0] # unp[1]


(***************************************************************************)
(* More claims about the encoder (SpecRow).                                *)
(***************************************************************************)
\* the last index of the run of equal bytes of s that starts at i
RECURSIVE RunEnd(_, _)
RunEnd(s, i) == IF i < Len(s) /\ s[i + 1] = s[i] THEN RunEnd(s, i + 1) ELSE i

\* the maximal runs of s from index i on, as pairs <<first, last>>
RECURSIVE Runs(_, _)
Runs(s, i) ==
  IF i > Len(s) THEN <<>>
  ELSE <<<<i, RunEnd(s, i)>>>> \o Runs(s, RunEnd(s, i) + 1)

\* the opcodes of a stream, as records of the kind, the position at in the
\* row of the first byte stood for, the number n of bytes stood for and the
\* payload; a stream cut short gives an opcode "bad"
RECURSIVE Opcodes(_, _)
Opcodes(out, at) ==
  IF out = <<>> THEN <<>>
  ELSE IF out[1] >= 128
  THEN IF Len(out) >= 2
       THEN <<[kind |-> "fill", at |-> at, n |-> 257 - out[1],
               data |-> <<out[2]>>]>>
              \o Opcodes(SubSeq(out, 3, Len(out)), at + 257 - out[1])
       ELSE <<[kind |-> "bad", at |-> at, n |-> 0, data |-> <<>>]>>
  ELSE IF Len(out) >= out[1] + 2
       THEN <<[kind |-> "copy", at |-> at, n |-> out[1] + 1,
               data |-> SubSeq(out, 2, out[1] + 2)]>>
              \o Opcodes(SubSeq(out, out[1] + 3, Len(out)), at + out[1] + 1)
       ELSE <<[kind |-> "bad", at |-> at, n |-> 0, data |-> <<>>]>>

\* pcx_encode_row has just written the bytes for the row src
RowEncoded == pc = "decode" /\ fpos = 0

\* the bytes written for the row
Encoded == file.head

\* C23: for every row of length 1..80, pcx_encode_row encodes every
\* maximal run of two or more equal bytes as exactly one fill opcode that
\* covers the whole run, and the bytes between two such runs (or before the
\* first, after the last) as exactly one copy opcode before the following
\* fill; no payload of a copy opcode holds two adjacent equal bytes and no
\* two copy opcodes are adjacent.
C23_OneOpcodePerRun ==
  RowEncoded =>
     \E ops \in {Opcodes(Encoded, 1)}, runs \in {Runs(src, 1)} :
        /\ \A k \in 1 .. Len(ops) : ops[k].kind # "bad"
        /\ \A r \in 1 .. Len(runs) :
             runs[r][2] > runs[r][1] =>
                \E k \in 1 .. Len(ops) :
                   /\ ops[k].kind = "fill"
                   /\ ops[k].at = runs[r][1]
                   /\ ops[k].n = runs[r][2] - runs[r][1] + 1
                   /\ ops[k].data = <<src[runs[r][1]]>>
        /\ \A k \in 1 .. Len(ops) :
             ops[k].kind = "fill" =>
                \E r \in 1 .. Len(runs) :
                   /\ runs[r][1] = ops[k].at
                   /\ runs[r][2] = ops[k].at + ops[k].n - 1
        /\ \A k \in 1 .. Len(ops) :
             ops[k].kind = "copy" =>
                /\ ops[k].data = SubSeq(src, ops[k].at, ops[k].at + ops[k].n - 1)
                /\ \A b \in 1 .. ops[k].n - 1 : ops[k].data[b] # ops[k].data[b + 1]
                /\ k < Len(ops) => ops[k + 1].kind = "fill"

\* a row of 78 bytes has been encoded with a copy opcode between two fill
\* opcodes, and it ends with a copy opcode
C23_Witness ==
  /\ RowEncoded
  /\ Len(src) = 78
  /\ \E ops \in {Opcodes(Encoded, 1)} :
       /\ Len(ops) >= 4
       /\ ops[1].kind = "fill" /\ ops[2].kind = "copy" /\ ops[3].kind = "fill"
       /\ ops[Len(ops)].kind = "copy" /\ ops[Len(ops)].n = 1


(***************************************************************************)
(* More claims about the colour tables (SpecCol).                          *)
(***************************************************************************)
\* the palette component that has been expanded
Nibble == c4 % 16

\* the component is one the mode can represent: 0..15 for the STe, 0..7 for
\* the STf
Representable == SteMode \/ Nibble < 8

\* C24: in each of the six colour modes, for every palette component n the
\* mode can represent, quantizing the expanded value gives the component
\* back: the nibble of rgb_8to4[col_4to8[n]] is n, so a palette word taken
\* to PNG and back in the same mode is the same word.
C24_ExpandQuantize ==
  (pc = "requantized" /\ Representable) =>
     Components(back) = <<Nibble, Nibble, Nibble>>

\* the component 4 has been expanded to $92 in the mode 3r and taken back:
\* the palette word is $CCC
C24_Witness ==
  /\ pc = "requantized"
  /\ opt_col = 9
  /\ Nibble = 4
  /\ c8 = 146
  /\ back = 3276


(***************************************************************************)
(* Claims about the offsets get_st_pixel reads (SpecPack).                 *)
(***************************************************************************)
\* the offsets of the pixel data of line yy of a picture of format i
LineArea(i, yy) == 34 + yy * LineSize(i) .. 34 + (yy + 1) * LineSize(i) - 1

\* C25: for the three geometries and every pixel (x, y) of the picture,
\* every offset get_st_pixel reads in the image buffer is in 34..32033, in
\* the pixel data and not in the header or after the 32034 bytes, and the
\* value returned is below two to the number of planes.
C25_ReadsInside ==
  LineDone =>
     /\ rd # {}
     /\ \A o \in rd : o >= 34 /\ o <= 32033
     /\ rd \subseteq LineArea(id, y - 1)
     /\ \A xx \in 0 .. png.w - 1 : unp[xx] >= 0 /\ unp[xx] < 2 ^ Planes(id)

\* the last line of a 640x400 picture has been read: the last byte of the
\* buffer is among the offsets
C25_Witness ==
  /\ LineDone
  /\ degas[id].id = DEGAS_PI3
  /\ y = 400
  /\ 32033 \in rd
  /\ rd = LineArea(id, 399)


(***************************************************************************)
(* Claims about the automatic output path (SpecPath).                      *)
(***************************************************************************)
\* the file name of the input path
FileName == basename(ipath)

\* create_output_path has been called
PathBuilt == pc \in {"path_made", "path_fault"}

\* C26: for every input file name, with an extension of any length, with
\* none, or starting with a dot, the output path that create_output_path
\* builds fits, its final zero included, in the length(name) +
\* length(extension) bytes that mf_strdup allocated for it.
C26_PathFits ==
  PathBuilt =>
     /\ asize = (IF opt_dir = 0 THEN Len(FileName) ELSE Len(ipath)) + 4
     /\ wend <= asize
     /\ pc = "path_made"
     /\ Len(opath) + 1 <= asize

\* the output path of the input "aaa": 8 bytes written to a buffer of 7
C26_Witness ==
  /\ PathBuilt
  /\ ipath = <<"a", "a", "a">>
  /\ opt_dir = 0
  /\ asize = 7
  /\ wend = 8

====
